---- MODULE Spec2Model ----
(***************************************************************************)
(* A model of ood_job_monitor/job_stats.py: the Slurm job-metrics engine.  *)
(*                                                                         *)
(* Text is modelled as a sequence of one-character strings, so that the    *)
(* str methods the code uses (strip, split, upper, endswith, isdigit) and  *)
(* the parsers built on them are computed, not assumed.  A float is an     *)
(* exact number n/d * 1024^e (see Num below).  The scheduler tools are the *)
(* environment: each call of _run_command draws a (stdout, stderr, rc)     *)
(* triple from a bounded set of outputs.                                   *)
(***************************************************************************)
EXTENDS Integers, Sequences, FiniteSets, TLC

(***************************************************************************)
(* Python str operations                                                   *)
(***************************************************************************)
LowerLetters == << "a","b","c","d","e","f","g","h","i","j","k","l","m",
                   "n","o","p","q","r","s","t","u","v","w","x","y","z" >>

UpperLetters == << "A","B","C","D","E","F","G","H","I","J","K","L","M",
                   "N","O","P","Q","R","S","T","U","V","W","X","Y","Z" >>

Digits == << "0","1","2","3","4","5","6","7","8","9" >>

\* str.isspace for one character (ASCII whitespace)
IsSpace(c) == c \in {" ", "\t", "\n", "\r", "\f"}

DigitChars == { Digits[i] : i \in 1..10 }

LowerChars == { LowerLetters[i] : i \in 1..26 }

UpperChars == { UpperLetters[i] : i \in 1..26 }

\* str.isdigit for one character (ASCII digits)
IsDigitChar(c) == c \in DigitChars

\* The value of each digit character
DigitValue == [c \in DigitChars |-> (CHOOSE i \in 1..10 : Digits[i] = c) - 1]

DigitVal(c) == DigitValue[c]

\* str.upper / str.lower for one character
ToUpper == [c \in LowerChars |-> UpperLetters[CHOOSE i \in 1..26 : LowerLetters[i] = c]]

ToLower == [c \in UpperChars |-> LowerLetters[CHOOSE i \in 1..26 : UpperLetters[i] = c]]

UpperChar(c) == IF c \in LowerChars THEN ToUpper[c] ELSE c

LowerChar(c) == IF c \in UpperChars THEN ToLower[c] ELSE c

\* str.upper() / str.lower()
Upper(s) == [i \in 1..Len(s) |-> UpperChar(s[i])]

Lower(s) == [i \in 1..Len(s) |-> LowerChar(s[i])]

\* s[i:] for a 1-based i
Drop(s, i) == SubSeq(s, i, Len(s))

\* str.lstrip(), str.rstrip(), str.strip()
LStrip[s \in Seq(STRING)] ==
    IF s # <<>> /\ IsSpace(Head(s)) THEN LStrip[Tail(s)] ELSE s

RStrip[s \in Seq(STRING)] ==
    IF s # <<>> /\ IsSpace(s[Len(s)]) THEN RStrip[SubSeq(s, 1, Len(s) - 1)] ELSE s

Strip(s) == RStrip[LStrip[s]]

\* The position of the first c in s, or 0
FirstIndex(s, c) == IF \E i \in 1..Len(s) : s[i] = c
                    THEN CHOOSE i \in 1..Len(s) :
                            s[i] = c /\ \A k \in 1..(i - 1) : s[k] # c
                    ELSE 0

\* str.split(sep) for a one-character sep: always at least one part
SplitAt[s \in Seq(STRING), sep \in STRING] ==
    LET i == FirstIndex(s, sep)
    IN  IF i = 0 THEN << s >>
        ELSE << SubSeq(s, 1, i - 1) >> \o SplitAt[Drop(s, i + 1), sep]

Split(s, sep) == SplitAt[s, sep]

\* str.split(sep, 1): at most one cut
Split1(s, sep) ==
    LET i == FirstIndex(s, sep)
    IN  IF i = 0 THEN << s >>
        ELSE << SubSeq(s, 1, i - 1), Drop(s, i + 1) >>

\* The position of the first whitespace character of s, or Len(s) + 1
FirstSpace(s) == IF \E i \in 1..Len(s) : IsSpace(s[i])
                 THEN CHOOSE i \in 1..Len(s) :
                         IsSpace(s[i]) /\ \A k \in 1..(i - 1) : ~IsSpace(s[k])
                 ELSE Len(s) + 1

\* str.split() with no argument: the whitespace-delimited tokens, none empty
Tokens[s \in Seq(STRING)] ==
    IF LStrip[s] = <<>> THEN <<>>
    ELSE LET i == FirstSpace(LStrip[s])
         IN  << SubSeq(LStrip[s], 1, i - 1) >> \o Tokens[Drop(LStrip[s], i)]

SplitWS(s) == Tokens[s]

\* sub in s
Contains(s, sub) ==
    \E i \in 1..(Len(s) - Len(sub) + 1) : SubSeq(s, i, i + Len(sub) - 1) = sub

\* str.endswith(c) for a one-character c
EndsWith(s, c) == s # <<>> /\ s[Len(s)] = c

\* str.isdigit(): non-empty and all digits
IsDigit(s) == s # <<>> /\ \A i \in 1..Len(s) : IsDigitChar(s[i])

\* sep.join(parts)
JoinWith[parts \in Seq(Seq(STRING)), sep \in STRING] ==
    IF parts = <<>> THEN <<>>
    ELSE IF Len(parts) = 1 THEN parts[1]
    ELSE parts[1] \o << sep >> \o JoinWith[Tail(parts), sep]

Join(parts, sep) == JoinWith[parts, sep]

(***************************************************************************)
(* Numbers.  A Python float is modelled exactly as n/d * 1024^e, kept in   *)
(* canonical form (n/d in lowest terms, d > 0, neither n nor d divisible   *)
(* by 1024, zero as 0/1 * 1024^0), so that equal numbers are equal         *)
(* records.  Rounding, infinities and NaN are not modelled.                *)
(***************************************************************************)
Abs(x) == IF x < 0 THEN -x ELSE x

GCD[a \in Nat, b \in Nat] == IF b = 0 THEN a ELSE GCD[b, a % b]

Pow[b \in Nat, k \in Int] == IF k <= 0 THEN 1 ELSE b * Pow[b, k - 1]

\* The byte multiplier base of _parse_memory
KiB == 1024

PullN[n \in Int, d \in Int, e \in Int] ==
    IF n % KiB = 0 THEN PullN[n \div KiB, d, e + 1] ELSE [n |-> n, d |-> d, e |-> e]

PullD[n \in Int, d \in Int, e \in Int] ==
    IF d % KiB = 0 THEN PullD[n, d \div KiB, e - 1] ELSE PullN[n, d, e]

\* The canonical form of n/d * 1024^e, d # 0
Canon(n, d, e) ==
    IF n = 0 THEN [n |-> 0, d |-> 1, e |-> 0]
    ELSE LET g == GCD[Abs(n), Abs(d)]
             s == IF d < 0 THEN -1 ELSE 1
         IN  PullD[(s * n) \div g, (s * d) \div g, e]

NumOf(i) == Canon(i, 1, 0)

Zero == NumOf(0)

Hundred == NumOf(100)

\* The numbers of the model
Nums == [n : Int, d : Nat, e : Int]

\* The numerator of a over the common denominator a.d * b.d and the
\* smaller exponent of a and b
ScaledN(a, b) == LET m == IF a.e < b.e THEN a.e ELSE b.e
                 IN  a.n * Pow[KiB, a.e - m] * b.d

\* x \div 1024^k
ShiftDown[x \in Int, k \in Int] == IF k <= 0 THEN x ELSE ShiftDown[x \div KiB, k - 1]

\* x * 1024^k < y for x, y > 0, without forming the product
PosLt(x, k, y) == IF k >= 0 THEN x <= ShiftDown[y - 1, k]
                  ELSE ShiftDown[x, -k] < y

Sign(a) == IF a.n > 0 THEN 1 ELSE IF a.n < 0 THEN -1 ELSE 0

\* a < b, a + b, a * b, and a / b for b # 0
Less[a \in Nums, b \in Nums] ==
    IF Sign(a) # Sign(b) THEN Sign(a) < Sign(b)
    ELSE IF Sign(a) = 0 THEN FALSE
    ELSE IF Sign(a) > 0 THEN PosLt(a.n * b.d, a.e - b.e, b.n * a.d)
    ELSE PosLt((-b.n) * a.d, b.e - a.e, (-a.n) * b.d)

Plus[a \in Nums, b \in Nums] ==
    Canon(ScaledN(a, b) + ScaledN(b, a), a.d * b.d, IF a.e < b.e THEN a.e ELSE b.e)

Times[a \in Nums, b \in Nums] == Canon(a.n * b.n, a.d * b.d, a.e + b.e)

Over[a \in Nums, b \in Nums] == Canon(a.n * b.d, a.d * b.n, a.e - b.e)

NLt(a, b) == Less[a, b]

NLe(a, b) == ~Less[b, a]

NAdd(a, b) == Plus[a, b]

NSub(a, b) == Plus[a, Canon(-b.n, b.d, b.e)]

NMul(a, b) == Times[a, b]

NDiv(a, b) == Over[a, b]

\* Python's max(x, y) and min(x, y) of two floats: x unless y is greater
\* (smaller)
Greater[x \in Nums, y \in Nums] == IF Less[x, y] THEN y ELSE x

Smaller[x \in Nums, y \in Nums] == IF Less[y, x] THEN y ELSE x

PyMax(x, y) == Greater[x, y]

PyMin(x, y) == Smaller[x, y]


\* The value of a non-empty string of digits
DigitsValue[s \in Seq(STRING)] ==
    IF s = <<>> THEN 0
    ELSE 10 * DigitsValue[SubSeq(s, 1, Len(s) - 1)] + DigitVal(s[Len(s)])

DigitsVal(s) == DigitsValue[s]

\* An exception raised by a conversion
Raise(exc) == [ok |-> FALSE, exc |-> exc]

Return(v) == [ok |-> TRUE, val |-> v]

\* The element of a one-element set: Only({ F(x) : x \in { e } }) is F(e)
\* with e computed once
Only(S) == CHOOSE x \in S : TRUE

\* int(s): surrounding whitespace and one sign are accepted
PyInt(s) ==
    Only({ LET neg == t # <<>> /\ t[1] = "-"
               u == IF t # <<>> /\ t[1] \in {"-", "+"} THEN Tail(t) ELSE t
           IN  IF IsDigit(u) THEN Return(IF neg THEN -DigitsVal(u) ELSE DigitsVal(u))
               ELSE Raise("ValueError") :
             t \in { Strip(s) } })

\* float(s) for decimal literals: [sign] digits [. digits], [sign] . digits;
\* every other text of the modelled alphabet is a ValueError
PyFloat(s) ==
    Only({ LET neg == t # <<>> /\ t[1] = "-"
               u == IF t # <<>> /\ t[1] \in {"-", "+"} THEN Tail(t) ELSE t
               p == Split(u, ".")
               ip == p[1]
               fp == IF Len(p) = 2 THEN p[2] ELSE <<>>
               wellformed == /\ Len(p) <= 2
                             /\ \A i \in 1..Len(ip) : IsDigitChar(ip[i])
                             /\ \A i \in 1..Len(fp) : IsDigitChar(fp[i])
                             /\ Len(ip) + Len(fp) > 0
               mag == Canon(DigitsVal(ip \o fp), Pow[10, Len(fp)], 0)
           IN  IF wellformed
               THEN Return(IF neg THEN [mag EXCEPT !.n = -mag.n] ELSE mag)
               ELSE Raise("ValueError") :
             t \in { Strip(s) } })

(***************************************************************************)
(* JobState                                                                *)
(***************************************************************************)
JobStates == { "PENDING", "RUNNING", "COMPLETED", "FAILED", "CANCELLED",
               "TIMEOUT", "NODE_FAIL", "PREEMPTED", "UNKNOWN" }

\* The value string of each member of the enumeration
StateValue(st) ==
    CASE st = "PENDING"   -> << "P","E","N","D","I","N","G" >>
      [] st = "RUNNING"   -> << "R","U","N","N","I","N","G" >>
      [] st = "COMPLETED" -> << "C","O","M","P","L","E","T","E","D" >>
      [] st = "FAILED"    -> << "F","A","I","L","E","D" >>
      [] st = "CANCELLED" -> << "C","A","N","C","E","L","L","E","D" >>
      [] st = "TIMEOUT"   -> << "T","I","M","E","O","U","T" >>
      [] st = "NODE_FAIL" -> << "N","O","D","E","_","F","A","I","L" >>
      [] st = "PREEMPTED" -> << "P","R","E","E","M","P","T","E","D" >>
      [] st = "UNKNOWN"   -> << "U","N","K","N","O","W","N" >>

\* JobState.from_string: IndexError when the text has no token
from_string(state_str) ==
    Only({ IF tokens = <<>> THEN Raise("IndexError")
           ELSE IF \E st \in JobStates : StateValue(st) = tokens[1]
                THEN Return(CHOOSE st \in JobStates : StateValue(st) = tokens[1])
                ELSE Return("UNKNOWN") :
             tokens \in { SplitWS(Upper(state_str)) } })

\* A variant of is_running under which no state is running: RoutesByState
\* must fail with it
NeverRunning(st) == FALSE

is_running(st) == st = "RUNNING"

\* A variant of is_completed without the two states added last:
\* StatePredicates must fail with it
CompletedWithoutPreempted(st) == st \in { "COMPLETED", "FAILED", "CANCELLED", "TIMEOUT" }

is_completed(st) == st \in { "COMPLETED", "FAILED", "CANCELLED",
                             "TIMEOUT", "NODE_FAIL", "PREEMPTED" }

is_successful(st) == st = "COMPLETED"

(***************************************************************************)
(* Field parsers                                                           *)
(***************************************************************************)
\* A variant of SuffixExp whose table starts one power too low:
\* MemoryParsed must fail with it
SuffixExpShifted(c) == CASE c = "K" -> 0 [] c = "M" -> 1 [] c = "G" -> 2 [] c = "T" -> 3

\* The exponent of 1024 for a suffix of _parse_memory's multipliers table
SuffixExp(c) == CASE c = "K" -> 1 [] c = "M" -> 2 [] c = "G" -> 3 [] c = "T" -> 4

\* JobStats._parse_memory
_parse_memory(mem_str) ==
    IF mem_str = <<>> THEN Return(Zero)
    ELSE
    Only({ LET hasSuffix == s # <<>> /\ s[Len(s)] \in {"K", "M", "G", "T"}
               body == IF hasSuffix THEN SubSeq(s, 1, Len(s) - 1) ELSE s
               \* re.match(r'^([\d.]+)([KMGT]?)$', s)
               match == /\ body # <<>>
                        /\ \A i \in 1..Len(body) : IsDigitChar(body[i]) \/ body[i] = "."
               value == PyFloat(body)
               plain == PyFloat(s)
           IN  IF match
               THEN IF value.ok
                    THEN Return(IF hasSuffix
                                THEN NMul(value.val, Canon(1, 1, SuffixExp(s[Len(s)])))
                                ELSE value.val)
                    ELSE value
               ELSE IF plain.ok THEN plain ELSE Return(Zero) :
             s \in { Upper(Strip(mem_str)) } })

SecondsPerDay == 86400

SecondsPerHour == 3600

SecondsPerMinute == 60

\* A variant of timedelta that counts a day as an hour: DurationParsed must
\* fail with it
TimedeltaShortDays(days, hours, minutes, seconds) ==
    NAdd(NAdd(NMul(NumOf(SecondsPerHour), NumOf(days)),
              NMul(NumOf(SecondsPerHour), hours)),
         NAdd(NMul(NumOf(SecondsPerMinute), minutes), seconds))

\* timedelta(days=, hours=, minutes=, seconds=).total_seconds()
timedelta(days, hours, minutes, seconds) ==
    NAdd(NAdd(NMul(NumOf(SecondsPerDay), NumOf(days)),
              NMul(NumOf(SecondsPerHour), hours)),
         NAdd(NMul(NumOf(SecondsPerMinute), minutes), seconds))

\* JobStats._parse_time, as total seconds
_parse_time(time_str) ==
    IF time_str = <<>> THEN Return(Zero)
    ELSE
    Only({ LET hasDays == FirstIndex(s, "-") # 0
               cut == Split1(s, "-")
               days == IF hasDays THEN PyInt(cut[1]) ELSE Return(0)
               rest == IF hasDays THEN cut[2] ELSE s
               parts == Split(rest, ":")
               f == [i \in 1..Len(parts) |-> PyFloat(parts[i])]
           IN  IF ~days.ok THEN days
               ELSE IF Len(parts) > 3 THEN Return(Zero)
               ELSE IF \E i \in 1..Len(parts) : ~f[i].ok THEN Return(Zero)
               ELSE IF Len(parts) = 3
                    THEN Return(timedelta(days.val, f[1].val, f[2].val, f[3].val))
               ELSE IF Len(parts) = 2
                    THEN Return(timedelta(days.val, Zero, f[1].val, f[2].val))
               ELSE Return(timedelta(days.val, Zero, Zero, f[1].val)) :
             s \in { Strip(time_str) } })

\* JobStats._parse_cpu_time
_parse_cpu_time(cpu_time_str) == _parse_time(cpu_time_str)

\* Optional values: None is the empty tuple, a value v is << v >>
None == << >>

Some(v) == << v >>

IsLeap(y) == (y % 4 = 0 /\ y % 100 # 0) \/ y % 400 = 0

DaysInMonth(y, m) == IF m = 2 THEN (IF IsLeap(y) THEN 29 ELSE 28)
                     ELSE IF m \in {4, 6, 9, 11} THEN 30 ELSE 31

\* The days from 2024-01-01, the origin of the modelled clock, to the civil
\* date y-m-d
DaysFromCivil(y, m, d) ==
    LET yy == IF m <= 2 THEN y - 1 ELSE y
        era == yy \div 400
        yoe == yy - era * 400
        mp == IF m > 2 THEN m - 3 ELSE m + 9
        doy == (153 * mp + 2) \div 5 + d - 1
        doe == yoe * 365 + yoe \div 4 - yoe \div 100 + doy
    IN  era * 146097 + doe - 739191

AllDigits(s, i, k) == \A x \in i..k : IsDigitChar(s[x])

\* datetime.strptime(s, "%Y-%m-%d<sep>%H:%M:%S[.%f]") for zero-padded
\* fields, as seconds since 2024-01-01T00:00:00; None when s does not match
Strptime(s, sep, frac) ==
    LET shape == /\ Len(s) >= 19
                 /\ AllDigits(s, 1, 4) /\ s[5] = "-" /\ AllDigits(s, 6, 7)
                 /\ s[8] = "-" /\ AllDigits(s, 9, 10) /\ s[11] = sep
                 /\ AllDigits(s, 12, 13) /\ s[14] = ":"
                 /\ AllDigits(s, 15, 16) /\ s[17] = ":"
                 /\ AllDigits(s, 18, 19)
                 /\ IF frac
                    THEN /\ Len(s) \in 21..26 /\ s[20] = "."
                         /\ AllDigits(s, 21, Len(s))
                    ELSE Len(s) = 19
        y == DigitsVal(SubSeq(s, 1, 4))
        mo == DigitsVal(SubSeq(s, 6, 7))
        d == DigitsVal(SubSeq(s, 9, 10))
        h == DigitsVal(SubSeq(s, 12, 13))
        mi == DigitsVal(SubSeq(s, 15, 16))
        se == DigitsVal(SubSeq(s, 18, 19))
        inRange == /\ y >= 1 /\ mo \in 1..12 /\ d \in 1..DaysInMonth(y, mo)
                   /\ h <= 23 /\ mi <= 59 /\ se <= 59
        whole == timedelta(DaysFromCivil(y, mo, d), NumOf(h), NumOf(mi), NumOf(se))
        part == IF frac
                THEN Canon(DigitsVal(SubSeq(s, 21, Len(s))), Pow[10, Len(s) - 20], 0)
                ELSE Zero
    IN  IF shape /\ inRange THEN Some(NAdd(whole, part)) ELSE None

\* JobStats._parse_datetime: the formats are tried in order
_parse_datetime(dt_str) ==
    IF \/ dt_str = <<>>
       \/ dt_str = << "U","n","k","n","o","w","n" >>
       \/ dt_str = << "N","o","n","e" >>
       \/ dt_str = << "N","/","A" >>
    THEN None
    ELSE Only({ LET f1 == Strptime(s, "T", FALSE)
                    f2 == Strptime(s, " ", FALSE)
                    f3 == Strptime(s, "T", TRUE)
                IN  IF f1 # None THEN f1
                    ELSE IF f2 # None THEN f2
                    ELSE f3 :
                  s \in { Strip(dt_str) } })

\* \w for one character (ASCII)
IsWordChar(c) == c \in DigitChars \/ c \in LowerChars \/ c \in UpperChars \/ c = "_"

\* The end of the run of [:\w] characters of s that starts at position i
RECURSIVE RunEnd(_, _)
RunEnd(s, i) == IF i <= Len(s) /\ (s[i] = ":" \/ IsWordChar(s[i]))
                THEN RunEnd(s, i + 1) ELSE i - 1

\* The end of the run of digits of s that starts at position i
RECURSIVE DigitsEnd(_, _)
DigitsEnd(s, i) == IF i <= Len(s) /\ IsDigitChar(s[i])
                   THEN DigitsEnd(s, i + 1) ELSE i - 1

\* The ':' positions that can end the greedy [:\w]* of a match of
\* r'gpu[:\w]*:(\d+)' starting at position i of s: a digit follows
GpuColons(s, i) ==
    IF i + 2 <= Len(s) /\ s[i] = "g" /\ s[i + 1] = "p" /\ s[i + 2] = "u"
    THEN LET last == RunEnd(s, i + 3)
         IN  { k \in (i + 3)..last :
                  s[k] = ":" /\ k < Len(s) /\ IsDigitChar(s[k + 1]) }
    ELSE { }

\* re.search(r'gpu[:\w]*:(\d+)', s): group 1 of the leftmost match, whose
\* greedy [:\w]* ends at the last ':' of the run that a digit follows;
\* None without a match
GpuSearch(s) ==
    LET starts == { i \in 1..Len(s) : GpuColons(s, i) # { } }
    IN  IF starts = { } THEN None
        ELSE LET i == CHOOSE x \in starts : \A z \in starts : x <= z
                 colons == GpuColons(s, i)
                 k == CHOOSE x \in colons : \A z \in colons : z <= x
             IN  Some(DigitsVal(SubSeq(s, k + 1, DigitsEnd(s, k + 1))))

\* The GPU count read from a GRES string (both collectors); 0 stays when
\* nothing matches
GresGpus(gres) ==
    Only({ LET found == GpuSearch(s)
           IN  IF Contains(s, << "g","p","u" >>) /\ found # None THEN found[1] ELSE 0 :
             s \in { Lower(gres) } })

(***************************************************************************)
(* The data model                                                          *)
(***************************************************************************)
\* GPUMetrics(...): the dataclass defaults, with the two percentages given
GPUMetrics(utilization, memory_utilization) ==
    [ gpu_id |-> 0, gpu_name |-> << >>, utilization |-> utilization,
      memory_used |-> Zero, memory_total |-> Zero,
      memory_utilization |-> memory_utilization ]

\* JobMetrics(job_id=job_id, state=state): every other field at its default
JobMetrics(job_id, state) ==
    [ job_id |-> job_id, job_name |-> << >>, user |-> << >>, state |-> state,
      submit_time |-> None, start_time |-> None, end_time |-> None,
      elapsed_time |-> Zero, time_limit |-> Zero,
      num_nodes |-> 0, num_cpus |-> 0, num_gpus |-> 0,
      memory_requested |-> Zero, partition |-> << >>,
      cpu_time_total |-> Zero, cpu_efficiency |-> Zero,
      memory_used_max |-> Zero, memory_used_avg |-> Zero,
      memory_efficiency |-> Zero,
      gpu_utilization_avg |-> Zero, gpu_memory_utilization_avg |-> Zero,
      gpu_metrics |-> << >>, node_metrics |-> << >>,
      last_updated |-> None, error_message |-> None ]

\* JobMetrics(): the default state is UNKNOWN and the default id is empty
DefaultMetrics == JobMetrics(<< >>, "UNKNOWN")

elapsed_seconds(m) == m.elapsed_time

time_limit_seconds(m) == m.time_limit

\* A variant of time_efficiency that divides whenever the limit is not zero:
\* TimeEfficiencyDerived must fail with it
TimeEfficiencySigned(m) ==
    IF time_limit_seconds(m) = Zero THEN Zero
    ELSE NMul(NDiv(elapsed_seconds(m), time_limit_seconds(m)), Hundred)

\* JobMetrics.time_efficiency
time_efficiency(m) ==
    IF NLe(time_limit_seconds(m), Zero) THEN Zero
    ELSE NMul(NDiv(elapsed_seconds(m), time_limit_seconds(m)), Hundred)

has_gpus(m) == m.num_gpus > 0

\* sum(xs) of a list of floats
Total[xs \in Seq(Nums)] == IF xs = << >> THEN Zero ELSE NAdd(Head(xs), Total[Tail(xs)])

Sum(xs) == Total[xs]

\* A variant of CpuStep that stores the ratio without clamping it:
\* CpuEfficiencyComputed must fail with it
CpuStepUnclamped(m) ==
    IF NLt(Zero, elapsed_seconds(m)) /\ m.num_cpus > 0
    THEN LET max_cpu_time == NMul(elapsed_seconds(m), NumOf(m.num_cpus))
         IN  [m EXCEPT !.cpu_efficiency =
                          NMul(NDiv(m.cpu_time_total, max_cpu_time), Hundred)]
    ELSE m

\* JobMetrics.calculate_efficiency: the three steps, in the order of the code
CpuStep(m) ==
    IF NLt(Zero, elapsed_seconds(m)) /\ m.num_cpus > 0
    THEN LET max_cpu_time == NMul(elapsed_seconds(m), NumOf(m.num_cpus))
             raw == NMul(NDiv(m.cpu_time_total, max_cpu_time), Hundred)
         IN  [m EXCEPT !.cpu_efficiency = PyMin(Hundred, PyMax(Zero, raw))]
    ELSE m

MemoryStep(m) ==
    IF NLt(Zero, m.memory_requested)
    THEN LET raw == NMul(NDiv(m.memory_used_max, m.memory_requested), Hundred)
         IN  [m EXCEPT !.memory_efficiency = PyMin(Hundred, PyMax(Zero, raw))]
    ELSE m

GpuStep(m) ==
    IF m.gpu_metrics # << >>
    THEN LET n == NumOf(Len(m.gpu_metrics))
             util == [i \in 1..Len(m.gpu_metrics) |-> m.gpu_metrics[i].utilization]
             mem == [i \in 1..Len(m.gpu_metrics) |->
                        m.gpu_metrics[i].memory_utilization]
         IN  [m EXCEPT !.gpu_utilization_avg = NDiv(Sum(util), n),
                       !.gpu_memory_utilization_avg = NDiv(Sum(mem), n)]
    ELSE m

\* A variant of calculate_efficiency that adds the new CPU percentage to the
\* stored one and uses up cpu_time_total: EfficiencyIdempotent must fail with it
CalculateAccumulating(m) ==
    Only({ [z EXCEPT !.cpu_efficiency = NAdd(m.cpu_efficiency, z.cpu_efficiency),
                     !.cpu_time_total = Zero] :
             z \in { GpuStep(MemoryStep(CpuStep(m))) } })

calculate_efficiency(m) ==
    Only({ GpuStep(z) : z \in { MemoryStep(y) : y \in { CpuStep(x) : x \in { m } } } })

(***************************************************************************)
(* Configuration and the Command Executor                                  *)
(***************************************************************************)
\* SlurmConfig defaults
sstat_path == "/usr/bin/sstat"

sacct_path == "/usr/bin/sacct"

squeue_path == "/usr/bin/squeue"

command_timeout == 30

\* The SlurmConfig a JobStats instance holds (JobStats.__init__)
SlurmConfig == [ sstat_path |-> sstat_path, sacct_path |-> sacct_path,
                 squeue_path |-> squeue_path, command_timeout |-> command_timeout ]

\* The -o arguments of the five commands the engine issues
StateFormat == "%T"

SacctStateFormat == "State"

QueueFormat == "%j|%u|%T|%V|%S|%L|%D|%C|%b|%m|%P"

SstatFormat == "JobID,AveCPU,MaxRSS,MaxVMSize,NTasks"

SacctFormat == "JobID,JobName,User,State,Submit,Start,End,Elapsed,Timelimit,NNodes,NCPUs,ReqMem,MaxRSS,AveCPU,TotalCPU,Partition,AllocGRES,ExitCode"

\* A command line: the executable, the -j argument and the -o argument
Command(path, j, o) == [path |-> path, j |-> j, o |-> o]

\* What subprocess.run does with a command: the process exits with a code
\* and its output, or the call raises
Exited(stdout, returncode) ==
    [kind |-> "exit", stdout |-> stdout, stderr |-> "", returncode |-> returncode]

Raised(kind) == [kind |-> kind, stdout |-> << >>, stderr |-> "", returncode |-> 0]

\* A variant of _run_command that hands on no output of a process that
\* exited with a non-zero code: ExecutorSurfacesFailures must fail with it
RunCommandBlanking(cmd, timeout, ran) ==
    CASE ran.kind = "exit" /\ ran.returncode = 0 ->
            [stdout |-> ran.stdout, stderr |-> ran.stderr, rc |-> ran.returncode]
      [] ran.kind = "exit" /\ ran.returncode # 0 ->
            [stdout |-> << >>, stderr |-> "Command failed", rc |-> -1]
      [] ran.kind = "TimeoutExpired" ->
            [stdout |-> << >>, stderr |-> "Command timed out", rc |-> -1]
      [] ran.kind = "FileNotFoundError" ->
            [stdout |-> << >>, stderr |-> "Command not found: " \o cmd.path, rc |-> -1]
      [] OTHER ->
            [stdout |-> << >>, stderr |-> ran.kind, rc |-> -1]

\* JobStats._run_command: the timeout that applies and the triple returned
\* for what subprocess.run did
EffectiveTimeout(timeout) ==
    IF timeout = None \/ timeout = Some(0) THEN command_timeout ELSE timeout[1]

_run_command(cmd, timeout, ran) ==
    CASE ran.kind = "exit" ->
            [stdout |-> ran.stdout, stderr |-> ran.stderr, rc |-> ran.returncode]
      [] ran.kind = "TimeoutExpired" ->
            [stdout |-> << >>, stderr |-> "Command timed out", rc |-> -1]
      [] ran.kind = "FileNotFoundError" ->
            [stdout |-> << >>, stderr |-> "Command not found: " \o cmd.path, rc |-> -1]
      [] OTHER ->
            [stdout |-> << >>, stderr |-> ran.kind, rc |-> -1]

\* One entry of the log of executor calls
Call(cmd, timeout, ran) ==
    [cmd |-> cmd, timeout |-> EffectiveTimeout(timeout),
     reply |-> _run_command(cmd, timeout, ran)]

\* rc == 0 and stdout.strip()
Usable(reply) == reply.rc = 0 /\ Strip(reply.stdout) # << >>

(***************************************************************************)
(* The State Resolver                                                      *)
(***************************************************************************)
\* get_job_state, first query: the state read from squeue, None when the
\* cascade goes on to sacct
StateFromSqueue(reply) ==
    IF Usable(reply) THEN Some(from_string(Strip(reply.stdout)).val) ELSE None

\* A variant of StateFromSacct that reads the last line: ResolverCascade
\* must fail with it
StateFromLastLine(reply) ==
    IF Usable(reply)
    THEN from_string(Split(Strip(reply.stdout), "\n")[
                       Len(Split(Strip(reply.stdout), "\n"))]).val
    ELSE "UNKNOWN"

\* get_job_state, second query: the state read from the first line of
\* sacct, UNKNOWN without usable output
StateFromSacct(reply) ==
    IF Usable(reply)
    THEN from_string(Split(Strip(reply.stdout), "\n")[1]).val
    ELSE "UNKNOWN"

(***************************************************************************)
(* The collectors.  A collector step yields a JobMetrics to go on with or  *)
(* to return, the absent result, or an exception that propagates.          *)
(***************************************************************************)
Absent == [kind |-> "return", value |-> None, exc |-> ""]

Returned(m) == [kind |-> "return", value |-> Some(m), exc |-> ""]

Propagated(exc) == [kind |-> "raise", value |-> None, exc |-> exc]

\* int(x) if x.isdigit() else 1
CountOf(x) == IF IsDigit(x) THEN DigitsVal(x) ELSE 1

\* The minimum field counts the collectors test for
QueueFieldCount == 11

SacctFieldCount == 18

BatchFieldCount == 15

SstatFieldCount == 5

\* get_running_job_stats, the assignments made from a squeue line of at
\* least 11 fields; now is the clock read for the elapsed time
QueueFields(m, parts, now) ==
    Only({ IF ~st.ok THEN Propagated(st.exc)
           ELSE IF ~time_left.ok THEN Propagated(time_left.exc)
           ELSE IF ~mem.ok THEN Propagated(mem.exc)
           ELSE Returned(
             [m EXCEPT !.job_name = parts[1], !.user = parts[2], !.state = st.val,
                       !.submit_time = _parse_datetime(parts[4]), !.start_time = start,
                       !.num_nodes = CountOf(parts[7]), !.num_cpus = CountOf(parts[8]),
                       !.num_gpus = GresGpus(parts[9]),
                       !.memory_requested = mem.val, !.partition = parts[11],
                       !.elapsed_time = IF start # None THEN NSub(now, start[1]) ELSE @,
                       !.time_limit = IF start # None
                                      THEN NAdd(NSub(now, start[1]), time_left.val)
                                      ELSE @]) :
             st \in { from_string(parts[3]) },
             start \in { _parse_datetime(parts[5]) },
             time_left \in { _parse_time(parts[6]) },
             mem \in { _parse_memory(parts[10]) } })

\* A variant of LiveQueue that goes on with default metrics when squeue
\* gave nothing: LiveAbsentWithoutQueueData must fail with it
LiveQueueZeroed(job_id, reply, updated, now) ==
    Returned([JobMetrics(job_id, "RUNNING") EXCEPT !.last_updated = Some(updated)])

\* get_running_job_stats up to its squeue call: the absent result, an
\* exception, or the metrics the sstat loop starts from
LiveQueue(job_id, reply, updated, now) ==
    LET m == [JobMetrics(job_id, "RUNNING") EXCEPT !.last_updated = Some(updated)]
    IN  IF reply.rc # 0 \/ Strip(reply.stdout) = << >> THEN Absent
        ELSE Only({ IF Len(parts) >= QueueFieldCount THEN QueueFields(m, parts, now)
                    ELSE Returned(m) :
                      parts \in { Split(Strip(reply.stdout), "|") } })

\* A variant of StepSuffixes that tries the job itself twice:
\* CallsBounded must fail with it
StepSuffixesRepeated ==
    << << >>, << >>, << ".","b","a","t","c","h" >>, << ".","0" >> >>

\* The step suffixes the sstat loop tries, in order
StepSuffixes == << << >>, << ".","b","a","t","c","h" >>, << ".","0" >> >>

\* The fields of the first line of the sstat output that has at least 5
\* fields; None when no line has
FirstStatLine(lines) ==
    LET idx == { i \in 1..Len(lines) : Len(Split(lines[i], "|")) >= SstatFieldCount }
    IN  IF idx = { } THEN None
        ELSE Some(Split(lines[CHOOSE i \in idx : \A k \in idx : i <= k], "|"))

\* A variant of StatFields that drops what sstat printed:
\* ScenarioCpuEfficiency must fail with it
StatFieldsDropped(m, reply) == Returned(m)

\* One usable sstat reply applied to the metrics
StatFields(m, reply) ==
    Only({ IF line = None THEN Returned(m)
           ELSE IF ~_parse_cpu_time(line[1][2]).ok
                THEN Propagated(_parse_cpu_time(line[1][2]).exc)
           ELSE IF ~_parse_memory(line[1][3]).ok
                THEN Propagated(_parse_memory(line[1][3]).exc)
           ELSE Returned([m EXCEPT !.cpu_time_total = _parse_cpu_time(line[1][2]).val,
                                   !.memory_used_max = _parse_memory(line[1][3]).val]) :
             line \in { FirstStatLine(Split(Strip(reply.stdout), "\n")) } })

\* get_running_job_stats as a function of the replies to its commands in
\* the order issued: the squeue reply, then the sstat replies up to the first
\* usable one
LiveResult(job_id, replies, updated, now) ==
    Only({ IF q.value = None THEN q
           ELSE LET used == { i \in 2..Len(replies) : Usable(replies[i]) }
                    first == CHOOSE i \in used : \A k \in used : i <= k
                IN  IF used = { } THEN Returned(calculate_efficiency(q.value[1]))
                    ELSE Only({ IF s.value = None THEN s
                                ELSE Returned(calculate_efficiency(s.value[1])) :
                                  s \in { StatFields(q.value[1], replies[first]) } }) :
             q \in { LiveQueue(job_id, replies[1], updated, now) } })

BatchSuffix == << ".","b","a","t","c","h" >>

\* The record id of a sacct line
StepId(line) == Split(line, "|")[1]

\* The selection loop of get_completed_job_stats: the tests a record id
\* passes to become main_line, and to become batch_line
IsMainId(job_id, step_id) ==
    /\ step_id = job_id \/ step_id = job_id \o BatchSuffix
    /\ ~Contains(step_id, BatchSuffix)

IsBatchId(job_id, step_id) ==
    /\ step_id = job_id \/ step_id = job_id \o BatchSuffix
    /\ Contains(step_id, BatchSuffix)

Largest(S) == CHOOSE i \in S : \A k \in S : k <= i

\* main_line after the loop and the fallback to the first line: each
\* matching line overwrites the one before
MainLine(job_id, lines) ==
    LET idx == { i \in 1..Len(lines) : IsMainId(job_id, StepId(lines[i])) }
    IN  IF idx = { } THEN Split(lines[1], "|")
        ELSE Split(lines[Largest(idx)], "|")

\* A variant of BatchLine that never finds a batch record:
\* BatchSuppliesMeasurements must fail with it
NoBatchLine(job_id, lines) == None

\* batch_line after the loop, None when no line matched
BatchLine(job_id, lines) ==
    LET idx == { i \in 1..Len(lines) : IsBatchId(job_id, StepId(lines[i])) }
    IN  IF idx = { } THEN None
        ELSE Some(Split(lines[Largest(idx)], "|"))

\* A variant of RequestedMemory that multiplies by the node count for either
\* suffix: RequestedMemoryScaled must fail with it
RequestedMemoryPerNode(req_mem, num_nodes, num_cpus) ==
    LET mult == IF EndsWith(req_mem, "n") \/ EndsWith(req_mem, "c") THEN num_nodes
                ELSE 1
        text == IF EndsWith(req_mem, "n") \/ EndsWith(req_mem, "c")
                THEN SubSeq(req_mem, 1, Len(req_mem) - 1) ELSE req_mem
    IN  IF _parse_memory(text).ok
        THEN Return(NMul(_parse_memory(text).val, NumOf(mult)))
        ELSE _parse_memory(text)

\* The total requested memory of a ReqMem field, given the node and CPU counts
RequestedMemory(req_mem, num_nodes, num_cpus) ==
    LET mult == IF EndsWith(req_mem, "n") THEN num_nodes
                ELSE IF EndsWith(req_mem, "c") THEN num_cpus ELSE 1
        text == IF EndsWith(req_mem, "n") \/ EndsWith(req_mem, "c")
                THEN SubSeq(req_mem, 1, Len(req_mem) - 1) ELSE req_mem
    IN  Only({ IF parsed.ok THEN Return(NMul(parsed.val, NumOf(mult))) ELSE parsed :
                 parsed \in { _parse_memory(text) } })

\* get_completed_job_stats from a main line of at least 18 fields
AcctFields(m, main_line, batch_line) ==
    LET nodes == CountOf(main_line[10])
        cpus == CountOf(main_line[11])
        src == IF batch_line # None /\ Len(batch_line[1]) >= BatchFieldCount
               THEN batch_line[1] ELSE main_line
    IN  Only({ IF ~st.ok THEN Propagated(st.exc)
               ELSE IF ~elapsed.ok THEN Propagated(elapsed.exc)
               ELSE IF ~limit.ok THEN Propagated(limit.exc)
               ELSE IF ~req.ok THEN Propagated(req.exc)
               ELSE IF ~mem.ok THEN Propagated(mem.exc)
               ELSE IF ~cpu.ok THEN Propagated(cpu.exc)
               ELSE Returned(calculate_efficiency(
                 [m EXCEPT !.job_name = main_line[2], !.user = main_line[3],
                           !.state = st.val,
                           !.submit_time = _parse_datetime(main_line[5]),
                           !.start_time = _parse_datetime(main_line[6]),
                           !.end_time = _parse_datetime(main_line[7]),
                           !.elapsed_time = elapsed.val, !.time_limit = limit.val,
                           !.num_nodes = nodes, !.num_cpus = cpus,
                           !.memory_requested = req.val, !.partition = main_line[16],
                           !.num_gpus = GresGpus(main_line[17]),
                           !.memory_used_max = mem.val, !.cpu_time_total = cpu.val])) :
                 st \in { from_string(main_line[4]) },
                 elapsed \in { _parse_time(main_line[8]) },
                 limit \in { _parse_time(main_line[9]) },
                 req \in { RequestedMemory(main_line[12], nodes, cpus) },
                 mem \in { _parse_memory(src[13]) },
                 cpu \in { _parse_cpu_time(src[15]) } })

\* A variant of HistCollect that names the metrics after the record they
\* were read from: JobIdPreserved must fail with it
HistCollectRecordId(job_id, reply, updated) ==
    IF reply.rc # 0 \/ Strip(reply.stdout) = << >> THEN Absent
    ELSE Only({ Only({ IF Len(main_line) < SacctFieldCount THEN Absent
                       ELSE AcctFields([JobMetrics(main_line[1], "UNKNOWN")
                                          EXCEPT !.last_updated = Some(updated)],
                                       main_line, batch_line) :
                         main_line \in { MainLine(job_id, lines) },
                         batch_line \in { BatchLine(job_id, lines) } }) :
                  lines \in { Split(Strip(reply.stdout), "\n") } })

\* get_completed_job_stats after its sacct call
HistCollect(job_id, reply, updated) ==
    LET m == [JobMetrics(job_id, "UNKNOWN") EXCEPT !.last_updated = Some(updated)]
    IN  IF reply.rc # 0 \/ Strip(reply.stdout) = << >> THEN Absent
        ELSE Only({ Only({ IF Len(main_line) < SacctFieldCount THEN Absent
                           ELSE AcctFields(m, main_line, batch_line) :
                             main_line \in { MainLine(job_id, lines) },
                             batch_line \in { BatchLine(job_id, lines) } }) :
                      lines \in { Split(Strip(reply.stdout), "\n") } })

(***************************************************************************)
(* The environment: what the scheduler tools print.  Outputs are built     *)
(* from fields, joined with '|' into lines and with newlines into text,    *)
(* and the code splits the text again.                                     *)
(***************************************************************************)
\* A line of pipe-delimited fields, and the text of some lines
Line(fields) == Join(fields, "|")

Text(lines) == IF lines = << >> THEN << >> ELSE Join(lines, "\n") \o << "\n" >>

W_RUNNING == << "R","U","N","N","I","N","G" >>

W_running == << "r","u","n","n","i","n","g" >>

W_PENDING == << "P","E","N","D","I","N","G" >>

W_COMPLETING == << "C","O","M","P","L","E","T","I","N","G" >>

W_COMPLETED == << "C","O","M","P","L","E","T","E","D" >>

W_FAILED == << "F","A","I","L","E","D" >>

W_CANCELLED_BY == << "C","A","N","C","E","L","L","E","D"," ","b","y"," ","1","0","0","0" >>

W_TIMEOUT == << "T","I","M","E","O","U","T" >>

W_NODE_FAIL == << "N","O","D","E","_","F","A","I","L" >>

W_PREEMPTED == << "P","R","E","E","M","P","T","E","D" >>

W_bogus == << "b","o","g","u","s" >>

T_0900 == << "2","0","2","4","-","0","1","-","1","5","T","0","9",":","0","0",":","0","0" >>

T_1000 == << "2","0","2","4","-","0","1","-","1","5","T","1","0",":","0","0",":","0","0" >>

T_1100 == << "2","0","2","4","-","0","1","-","1","5","T","1","1",":","0","0",":","0","0" >>

T_Unknown == << "U","n","k","n","o","w","n" >>

\* The job ids requested, and the id of another job
JobIds == { << "1","2" >>, << "7" >> }

OtherJob == << "9","9" >>

\* What `squeue -o %T` prints
SqueueStateRuns ==
    { Exited(Text(lines), 0) :
        lines \in { << >>, << W_RUNNING >>, << W_running >>, << W_PENDING >>,
                    << W_COMPLETING >>, << W_TIMEOUT >> } }
    \cup { Exited(Text(<< W_RUNNING >>), 1), Exited(<< " ","\n" >>, 0),
           Raised("TimeoutExpired") }

\* What `sacct -o State` prints: one line per step
SacctStateRuns ==
    { Exited(Text(lines), 0) :
        lines \in { << >>, << W_COMPLETED, W_FAILED >>, << W_FAILED, W_COMPLETED >>,
                    << W_CANCELLED_BY, W_COMPLETED >>, << W_TIMEOUT >>,
                    << W_NODE_FAIL >>, << W_PREEMPTED >>, << W_PENDING >>,
                    << W_RUNNING, W_COMPLETED >>, << W_bogus >> } }
    \cup { Exited(Text(<< W_COMPLETED >>), 1), Raised("FileNotFoundError") }

\* The outputs of the two state queries that two invocations under way
\* together are run against
SqueueStateRunsPaired == { Exited(Text(<< W_RUNNING >>), 0), Raised("TimeoutExpired") }

SacctStateRunsPaired ==
    { Exited(Text(<< W_COMPLETED >>), 0), Exited(Text(<< W_PENDING >>), 0),
      Exited(<< >>, 0) }

\* squeue lines: name|user|state|submit|start|timeleft|nodes|cpus|gres|mem|partition
QueueRecord ==
    << << "s","i","m" >>, << "a","m","y" >>, W_RUNNING, T_0900, T_1000,
       << "3","0",":","0","0" >>, << "2" >>, << "4" >>,
       << "g","p","u",":","a","1","0","0",":","2" >>, << "8","G" >>,
       << "g","p","u" >> >>

QueueRecordNotStarted ==
    << << "j","o","b" >>, << "b","o","b" >>, W_PENDING, T_0900, << "N","/","A" >>,
       << "1","-","0","0",":","0","0",":","0","0" >>, << "1" >>, << "x" >>,
       << "N","/","A" >>, << "5","1","2","M" >>, << "d","e","b","u","g" >> >>

QueueLines ==
    { Line(QueueRecord), Line(QueueRecordNotStarted),
      Line(SubSeq(QueueRecord, 1, QueueFieldCount - 1)),
      Line([QueueRecord EXCEPT ![3] = << " " >>]),
      Line([QueueRecord EXCEPT ![6] = << "x","-","0","1",":","0","0" >>]) }

\* What `squeue -o <11 fields>` prints.  A collector called by
\* get_job_stats is run against the brief outputs, a collector called
\* directly against all of them.
QueueRunsBrief ==
    { Exited(Text(<< Line(QueueRecord) >>), 0), Exited(<< >>, 0),
      Exited(Text(<< Line(QueueRecord) >>), 1) }

QueueRunsPaired == { Exited(Text(<< Line(QueueRecord) >>), 0), Exited(<< >>, 0) }

QueueRuns ==
    QueueRunsBrief
    \cup { Exited(Text(<< l >>), 0) : l \in QueueLines }
    \cup { Exited(<< " ","\n" >>, 0), Raised("TimeoutExpired") }

\* sstat lines: JobID|AveCPU|MaxRSS|MaxVMSize|NTasks
StatRecord ==
    << << "1","2",".","0" >>, << "0","2",":","0","0",":","0","0" >>, << "1","G" >>,
       << "2","G" >>, << "1" >> >>

SstatRunsBrief ==
    { Exited(Text(<< Line(StatRecord) >>), 0), Exited(<< >>, 0) }

SstatRuns ==
    SstatRunsBrief
    \cup { Exited(Text(<< Line(SubSeq(StatRecord, 1, 2)), Line(StatRecord) >>), 0),
           Exited(Text(<< Line(SubSeq(StatRecord, 1, SstatFieldCount - 1)) >>), 0),
           Exited(Text(<< Line(StatRecord) >>), 1) }

\* sacct lines: JobID|JobName|User|State|Submit|Start|End|Elapsed|Timelimit|
\* NNodes|NCPUs|ReqMem|MaxRSS|AveCPU|TotalCPU|Partition|AllocGRES|ExitCode
JobRecord(id) ==
    << id, << "s","i","m" >>, << "a","m","y" >>, W_COMPLETED, T_0900, T_1000,
       T_1100, << "0","1",":","0","0",":","0","0" >>,
       << "0","2",":","0","0",":","0","0" >>, << "2" >>, << "4" >>,
       << "4","G","n" >>, << "1","G" >>, << "0","0",":","1","0",":","0","0" >>,
       << "0","2",":","0","0",":","0","0" >>, << "g","p","u" >>,
       << "g","p","u",":","a","1","0","0",":","2" >>, << "0",":","0" >> >>

StepRecord(id) ==
    << id, << "b","a","t","c","h" >>, << >>, W_FAILED, T_1000, T_1000,
       T_Unknown, << "0","0",":","3","0",":","0","0" >>, << >>, << "1" >>,
       << "3" >>, << "2","G","c" >>, << "5","1","2","M" >>,
       << "0","0",":","0","5",":","0","0" >>,
       << "0","1",":","3","0",":","0","0" >>, << "d","e","b","u","g" >>,
       << "g","r","e","s","/","g","p","u",":","1" >>, << "1",":","0" >> >>

SacctLines(job_id) ==
    { Line(JobRecord(job_id)),
      Line(StepRecord(job_id)),
      Line(SubSeq(JobRecord(job_id), 1, SacctFieldCount - 1)),
      Line(SubSeq(StepRecord(job_id \o BatchSuffix), 1, BatchFieldCount)),
      Line(SubSeq(StepRecord(job_id \o BatchSuffix), 1, BatchFieldCount - 1)),
      Line(StepRecord(job_id \o << ".","0" >>)),
      Line(JobRecord(OtherJob)),
      Line([JobRecord(job_id) EXCEPT ![4] = << >>]),
      Line([JobRecord(job_id) EXCEPT ![12] = << "1","G" >>]),
      Line([JobRecord(OtherJob) EXCEPT ![4] = << >>]) }

\* The most lines of one sacct output
MaxLines == 2

RECURSIVE LinesUpTo(_, _)
LinesUpTo(S, k) ==
    IF k = 0 THEN { << >> }
    ELSE LET shorter == LinesUpTo(S, k - 1)
         IN  shorter \cup { Append(ls, l) : ls \in shorter, l \in S }

\* What `sacct -o <18 fields>` prints
SacctRunsBrief(job_id) ==
    { Exited(Text(lines), 0) :
        lines \in { << >>,
                    << Line(JobRecord(job_id)) >>,
                    << Line(JobRecord(job_id)), Line(StepRecord(job_id \o BatchSuffix)) >>,
                    << Line(SubSeq(JobRecord(job_id), 1, SacctFieldCount - 1)) >>,
                    << Line([JobRecord(job_id) EXCEPT ![4] = << >>]) >> } }
    \cup { Exited(Text(<< Line(JobRecord(job_id)) >>), 1) }

SacctRunsPaired(job_id) ==
    { Exited(Text(lines), 0) :
        lines \in { << >>,
                    << Line(JobRecord(job_id)), Line(StepRecord(job_id \o BatchSuffix)) >>,
                    << Line([JobRecord(job_id) EXCEPT ![4] = << >>]) >> } }

SacctRuns(job_id) ==
    SacctRunsBrief(job_id)
    \cup { Exited(Text(lines), 0) : lines \in LinesUpTo(SacctLines(job_id), MaxLines) }
    \cup { Raised("TimeoutExpired") }

\* The values datetime.now() can return: 11:30 and 12:00 on 2024-01-15
StartTime == timedelta(14, NumOf(11), NumOf(30), Zero)

NowSet == { StartTime, timedelta(14, NumOf(12), Zero, Zero) }

(***************************************************************************)
(* The engine as a state machine: one call of an entry point of JobStats,  *)
(* one action per executor call together with the code that follows it up  *)
(* to the next call or the return.                                         *)
(***************************************************************************)
VARIABLES
    entry,      \* the method called
    job_id,     \* its job_id argument
    pc,         \* the executor call that comes next, or "done"
    branch,     \* get_job_stats: the branch taken after get_job_state
    state,      \* what get_job_state returned, "unresolved" before
    metrics,    \* get_running_job_stats: the metrics under construction
    step,       \* get_running_job_stats: the index of the next step suffix
    ret,        \* what the entry call returned or raised
    calls,      \* the executor calls made, in order
    clock,      \* the last value datetime.now() returned
    jm,         \* a JobMetrics that calculate_efficiency is applied to
    applied,    \* how many times calculate_efficiency was applied to jm
    arg,        \* the argument of a function or method called on its own; with
                \* two invocations, the locals of the one that is not running
    slurm       \* the SlurmConfig of the JobStats instance (self.slurm)

vars == << entry, job_id, pc, branch, state, metrics, step, ret, calls, clock, jm,
          applied, arg, slurm >>

Entries == { "get_job_state", "get_running_job_stats",
             "get_completed_job_stats", "get_job_stats" }

Pending == [kind |-> "pending", value |-> None, exc |-> ""]

\* A value of datetime.now(): the clock does not run backwards
Now(t) == t \in NowSet /\ NLe(clock, t)

\* Two invocations of get_job_stats are under way: the locals of the one
\* that is not running are kept in arg
Paired == arg # None

\* The collector was called directly, not by get_job_stats
Direct == entry \in { "get_running_job_stats", "get_completed_job_stats" }

FirstCall(e) == CASE e = "get_running_job_stats" -> "live_squeue"
                  [] e = "get_completed_job_stats" -> "hist_sacct"
                  [] OTHER -> "resolve_squeue"

Init ==
    /\ entry \in Entries
    /\ job_id \in JobIds
    /\ pc = FirstCall(entry)
    /\ branch = "none"
    /\ state = "unresolved"
    /\ metrics = None
    /\ step = 1
    /\ ret = Pending
    /\ calls = << >>
    /\ clock = StartTime
    /\ jm = DefaultMetrics
    /\ applied = 0
    /\ slurm = SlurmConfig
    /\ arg = None

\* The entry call ends with result r
Finish(r) ==
    /\ pc' = "done"
    /\ ret' = r
    /\ metrics' = None

\* A variant of Route without the branch for PENDING: PendingIsMinimal must
\* fail with it
RouteWithoutPending(st) == IF is_running(st) THEN "running"
                           ELSE IF is_completed(st) THEN "completed"
                           ELSE "unknown"

\* A variant of Route that treats a running job like one of unknown state:
\* RunningSkipsAccounting must fail with it
RouteRunningAsUnknown(st) == IF is_completed(st) THEN "completed"
                             ELSE IF st = "PENDING" THEN "pending"
                             ELSE "unknown"

\* get_job_stats: the branch taken for the state the resolver returned
Route(st) == IF is_running(st) THEN "running"
             ELSE IF is_completed(st) THEN "completed"
             ELSE IF st = "PENDING" THEN "pending"
             ELSE "unknown"

\* A variant of FallsBack that tries the live collector whatever the
\* historical collector returned: UnknownTriesHistoryFirst must fail with it
AlwaysFallsBack(b, r) == b = "unknown"

\* get_job_stats, the branch for the other states: the live collector is
\* tried when the historical collector returned nothing
FallsBack(b, r) == b = "unknown" /\ r.kind = "return" /\ r.value = None

\* get_job_state has returned st: get_job_stats takes its branch
Resolved(st) ==
    /\ state' = st
    /\ IF entry = "get_job_state"
       THEN Finish(Absent) /\ UNCHANGED << branch, clock >>
       ELSE /\ branch' = Route(st)
            /\ IF Route(st) = "pending"
               THEN \E t \in NowSet :
                       /\ Now(t) /\ clock' = t
                       /\ Finish(Returned([JobMetrics(job_id, st)
                                              EXCEPT !.last_updated = Some(t)]))
               ELSE /\ pc' = IF Route(st) = "running" THEN "live_squeue"
                             ELSE "hist_sacct"
                    /\ UNCHANGED << ret, metrics, clock >>

\* get_job_state: the squeue query
ResolveSqueue ==
    /\ pc = "resolve_squeue"
    /\ \E ran \in IF Paired THEN SqueueStateRunsPaired ELSE SqueueStateRuns :
          \E c \in { Call(Command(slurm.squeue_path, job_id, StateFormat), None, ran) } :
          \E st \in { StateFromSqueue(c.reply) } :
              /\ calls' = Append(calls, c)
              /\ IF st # None THEN Resolved(st[1])
                 ELSE /\ pc' = "resolve_sacct"
                      /\ UNCHANGED << branch, state, metrics, ret, clock >>
    /\ UNCHANGED << entry, job_id, step, jm, applied, arg, slurm >>

\* get_job_state: the sacct query
ResolveSacct ==
    /\ pc = "resolve_sacct"
    /\ \E ran \in IF Paired THEN SacctStateRunsPaired ELSE SacctStateRuns :
          \E c \in { Call(Command(slurm.sacct_path, job_id, SacctStateFormat), None, ran) } :
          \E st \in { StateFromSacct(c.reply) } :
              /\ calls' = Append(calls, c)
              /\ Resolved(st)
    /\ UNCHANGED << entry, job_id, step, jm, applied, arg, slurm >>

\* get_running_job_stats up to the sstat loop
LiveSqueue ==
    /\ pc = "live_squeue"
    /\ \E ran \in IF Direct THEN QueueRuns
                  ELSE IF Paired THEN QueueRunsPaired ELSE QueueRunsBrief,
          t1 \in NowSet, t2 \in NowSet :
          /\ Now(t1) /\ NLe(t1, t2)
          /\ \E c \in { Call(Command(slurm.squeue_path, job_id, QueueFormat), None, ran) } :
             \E r \in { LiveQueue(job_id, c.reply, t1, t2) } :
              /\ calls' = Append(calls, c)
              /\ IF r.value = None
                 THEN Finish(r) /\ clock' = t1 /\ UNCHANGED step
                 ELSE /\ pc' = "live_sstat" /\ metrics' = r.value /\ step' = 1
                      /\ clock' = IF r.value[1].start_time # None THEN t2 ELSE t1
                      /\ UNCHANGED ret
    /\ UNCHANGED << entry, job_id, branch, state, jm, applied, arg, slurm >>

\* A variant of LiveSstat that returns None when no sstat call gave
\* anything: PartialDataReturned must fail with it
LiveSstatStrict ==
    /\ pc = "live_sstat"
    /\ \E ran \in IF Direct THEN SstatRuns ELSE SstatRunsBrief :
          \E c \in { Call(Command(slurm.sstat_path, job_id \o StepSuffixes[step], SstatFormat),
                          None, ran) } :
          \E r \in { StatFields(metrics[1], c.reply) } :
              /\ calls' = Append(calls, c)
              /\ IF Usable(c.reply)
                 THEN /\ step' = step
                      /\ Finish(IF r.value = None THEN r
                                ELSE Returned(calculate_efficiency(r.value[1])))
                 ELSE IF step = Len(StepSuffixes)
                 THEN /\ step' = step
                      /\ Finish(Absent)
                 ELSE /\ step' = step + 1
                      /\ UNCHANGED << pc, ret, metrics >>
    /\ UNCHANGED << entry, job_id, branch, state, clock, jm, applied, arg, slurm >>

\* get_running_job_stats: one turn of the sstat loop, and what follows the
\* loop when this turn ends it
LiveSstat ==
    /\ pc = "live_sstat"
    /\ \E ran \in IF Direct THEN SstatRuns ELSE SstatRunsBrief :
          \E c \in { Call(Command(slurm.sstat_path, job_id \o StepSuffixes[step], SstatFormat),
                          None, ran) } :
          \E r \in { StatFields(metrics[1], c.reply) } :
              /\ calls' = Append(calls, c)
              /\ IF Usable(c.reply)
                 THEN /\ step' = step
                      /\ Finish(IF r.value = None THEN r
                                ELSE Returned(calculate_efficiency(r.value[1])))
                 ELSE IF step = Len(StepSuffixes)
                 THEN /\ step' = step
                      /\ Finish(Returned(calculate_efficiency(metrics[1])))
                 ELSE /\ step' = step + 1
                      /\ UNCHANGED << pc, ret, metrics >>
    /\ UNCHANGED << entry, job_id, branch, state, clock, jm, applied, arg, slurm >>

\* get_completed_job_stats; in the UNKNOWN branch of get_job_stats an absent
\* result leads on to get_running_job_stats
HistSacct ==
    /\ pc = "hist_sacct"
    /\ \E ran \in IF Direct THEN SacctRuns(job_id)
                  ELSE IF Paired THEN SacctRunsPaired(job_id)
                  ELSE SacctRunsBrief(job_id),
          t \in NowSet :
          /\ Now(t) /\ clock' = t
          /\ \E c \in { Call(Command(slurm.sacct_path, job_id, SacctFormat), None, ran) } :
             \E r \in { HistCollect(job_id, c.reply, t) } :
              /\ calls' = Append(calls, c)
              /\ IF FallsBack(branch, r)
                 THEN pc' = "live_squeue" /\ UNCHANGED << ret, metrics >>
                 ELSE Finish(r)
    /\ UNCHANGED << entry, job_id, branch, state, step, jm, applied, arg, slurm >>

Next == ResolveSqueue \/ ResolveSacct \/ LiveSqueue \/ LiveSstat \/ HistSacct

Spec == Init /\ [][Next]_vars

\* An entry point that was called goes on running: every _run_command call
\* returns (subprocess.run is given a timeout) and the code between two
\* calls is straight-line
FairSpec == Spec /\ WF_vars(Next)

(***************************************************************************)
(* Two invocations of get_job_stats on one JobStats instance, for          *)
(* different jobs, taking turns at any point between two executor calls.   *)
(* The variables of the engine hold the locals of the invocation that is   *)
(* running and arg those of the other one; the instance is shared.         *)
(***************************************************************************)
\* The locals of the invocation that is running
Locals ==
    [ entry |-> entry, job_id |-> job_id, pc |-> pc, branch |-> branch,
      state |-> state, metrics |-> metrics, step |-> step, ret |-> ret,
      calls |-> calls, clock |-> clock ]

\* The locals of get_job_stats(j) as it is called
InitialLocals(j) ==
    [ entry |-> "get_job_stats", job_id |-> j, pc |-> FirstCall("get_job_stats"),
      branch |-> "none", state |-> "unresolved", metrics |-> None, step |-> 1,
      ret |-> Pending, calls |-> << >>, clock |-> StartTime ]

PairInit ==
    /\ entry = "get_job_stats"
    /\ job_id \in JobIds
    /\ pc = FirstCall(entry)
    /\ branch = "none"
    /\ state = "unresolved"
    /\ metrics = None
    /\ step = 1
    /\ ret = Pending
    /\ calls = << >>
    /\ clock = StartTime
    /\ jm = DefaultMetrics
    /\ applied = 0
    /\ slurm = SlurmConfig
    /\ \E other \in JobIds \ { job_id } : arg = Some(InitialLocals(other))

\* A variant of Switch in which the metrics under construction belong to
\* the instance rather than to the call: InvocationsIndependent must fail
\* with it
SwitchSharingMetrics ==
    /\ Paired
    /\ entry' = arg[1].entry /\ job_id' = arg[1].job_id /\ pc' = arg[1].pc
    /\ branch' = arg[1].branch /\ state' = arg[1].state
    /\ metrics' = IF pc = "live_sstat" /\ arg[1].pc = "live_sstat" THEN metrics
                  ELSE arg[1].metrics
    /\ step' = arg[1].step /\ ret' = arg[1].ret /\ calls' = arg[1].calls
    /\ clock' = arg[1].clock
    /\ arg' = Some(Locals)
    /\ UNCHANGED << jm, applied, slurm >>

\* The other invocation takes its turn
Switch ==
    /\ Paired
    /\ entry' = arg[1].entry /\ job_id' = arg[1].job_id /\ pc' = arg[1].pc
    /\ branch' = arg[1].branch /\ state' = arg[1].state
    /\ metrics' = arg[1].metrics
    /\ step' = arg[1].step /\ ret' = arg[1].ret /\ calls' = arg[1].calls
    /\ clock' = arg[1].clock
    /\ arg' = Some(Locals)
    /\ UNCHANGED << jm, applied, slurm >>

PairNext == ResolveSqueue \/ ResolveSacct \/ LiveSqueue \/ LiveSstat \/ HistSacct \/ Switch

PairSpec == PairInit /\ [][PairNext]_vars

(***************************************************************************)
(* calculate_efficiency on its own: a JobMetrics whose raw fields were set *)
(* by a caller, and the method applied to it, more than once.              *)
(***************************************************************************)
\* The most applications of calculate_efficiency to one JobMetrics
MaxApplied == 2

GiB(n) == Canon(n, 1, 3)

\* The raw inputs: zero, ordinary, oversized and negative values
ElapsedInputs == { NumOf(-3600), Zero, NumOf(3600) }

CpuInputs == { 0, 4 }

CpuTimeInputs == { NumOf(-60), NumOf(7200), NumOf(28800) }

RequestedInputs == { Zero, GiB(8) }

UsedInputs == { Canon(-1, 1, 2), GiB(4), GiB(16) }

LimitInputs == { NumOf(-3600), Zero, NumOf(7200) }

\* The values the derived fields cpu_efficiency and memory_efficiency hold
\* before the call: the default, and one left by an earlier computation
StaleInputs == { Zero, NumOf(55) }

GpuInputs == { << >>,
               << GPUMetrics(NumOf(50), NumOf(40)) >>,
               << GPUMetrics(NumOf(150), NumOf(-20)), GPUMetrics(NumOf(90), NumOf(60)) >> }

EffInputs ==
    { [DefaultMetrics EXCEPT !.elapsed_time = e, !.num_cpus = c,
                             !.cpu_time_total = ct, !.memory_requested = mr,
                             !.memory_used_max = mu, !.time_limit = tl,
                             !.gpu_metrics = g, !.num_gpus = Len(g),
                             !.cpu_efficiency = st, !.memory_efficiency = st] :
        e \in ElapsedInputs, c \in CpuInputs, ct \in CpuTimeInputs,
        mr \in RequestedInputs, mu \in UsedInputs, tl \in LimitInputs,
        g \in GpuInputs, st \in StaleInputs }

EffInit ==
    /\ entry = "calculate_efficiency"
    /\ job_id = << >>
    /\ pc = "done"
    /\ branch = "none"
    /\ state = "unresolved"
    /\ metrics = None
    /\ step = 1
    /\ ret = Pending
    /\ calls = << >>
    /\ clock = StartTime
    /\ jm \in EffInputs
    /\ applied = 0
    /\ slurm = SlurmConfig
    /\ arg = jm

\* metrics.calculate_efficiency()
Calculate ==
    /\ entry = "calculate_efficiency"
    /\ applied < MaxApplied
    /\ jm' = calculate_efficiency(jm)
    /\ applied' = applied + 1
    /\ UNCHANGED << entry, job_id, pc, branch, state, metrics, step, ret, calls, clock,
                   arg, slurm >>

EffNext == Calculate

EffSpec == EffInit /\ [][EffNext]_vars

(***************************************************************************)
(* The parsers and the executor called on their own: one call of           *)
(* JobState.from_string, of a field parser or of _run_command with the     *)
(* argument arg.                                                           *)
(***************************************************************************)
\* State texts: the nine names in different cases, with surrounding text,
\* names that are no state, and texts without a token
StateTexts ==
    { << "P","E","N","D","I","N","G" >>, << "R","u","n","n","i","n","g" >>, << " ","r","u","n","n","i","n","g" >>,
      << "C","O","M","P","L","E","T","E","D" >>, << "f","a","i","l","e","d" >>, << "C","A","N","C","E","L","L","E","D"," ","b","y"," ","1","0","0","0" >>,
      << "T","I","M","E","O","U","T" >>, << "n","o","d","e","_","f","a","i","l" >>, << "P","R","E","E","M","P","T","E","D"," "," " >>,
      << "U","N","K","N","O","W","N" >>, << "C","O","M","P","L","E","T","I","N","G" >>, << "b","o","g","u","s" >>,
      << >>, << " " >>, << "R","U","N","N","I","N","G","+"," ","x" >> }

\* Memory texts: plain and suffixed numerals, and malformed ones
MemoryTexts ==
    { << >>, << "1","G" >>, << "5","1","2","M" >>, << "1","0","2","4","K" >>, << "1","0","7","3","7","4","1","8","2","4" >>,
      << "1",".","5","g" >>, << " ","2","T"," " >>, << "0" >>, << "1",".","2",".","3" >>, << "." >>,
      << "1",".","2",".","3","G" >>, << "a","b","c" >>, << "-","5" >>, << "G" >>, << "8","G","n" >>,
      << "2","T" >>, << "4","k" >>, << "0",".","5","m" >> }

\* Duration texts: the four formats, and malformed ones
TimeTexts ==
    { << >>, << "0","1",":","3","0",":","0","0" >>, << "1","-","0","2",":","0","3",":","0","4" >>, << "0","5",":","3","0" >>, << "4","5" >>,
      << " ","1","0"," " >>, << "1",".","5" >>, << "x","-","0","1",":","0","0" >>, << "-","5" >>, << "1","-" >>,
      << "1",":","2",":","3",":","4" >>, << "0","1",":","x","x",":","0","0" >>, << "a","b" >>, << "1","-","2","-","3" >>,
      << "0","2",":","3","0",":","4","5" >>, << "1","-","1","2",":","3","0",":","0","0" >>, << "4","5",":","3","0" >> }

\* Timestamp texts: the three formats, the placeholders, and malformed ones
DatetimeTexts ==
    { << >>, << "U","n","k","n","o","w","n" >>,
      << "N","o","n","e" >>, << "N","/","A" >>,
      << "2","0","2","4","-","0","1","-","1","5","T","0","9",":","0","0",":","0","0" >>, << "2","0","2","4","-","0","1","-","1","5"," ","0","9",":","0","0",":","0","0" >>,
      << "2","0","2","4","-","0","1","-","1","5","T","0","9",":","0","0",":","0","0",".","5" >>, << " ","2","0","2","4","-","0","1","-","1","5","T","0","9",":","0","0",":","0","0"," " >>,
      << "2","0","2","4","-","0","2","-","3","0","T","0","0",":","0","0",":","0","0" >>, << "b","a","d" >>,
      << " " >> }

\* The timeout argument of _run_command: left out, or a number of seconds
TimeoutArguments == { None, Some(0), Some(5), Some(60) }

\* What subprocess.run does: the process exits, or one of the exceptions the
\* three handlers catch is raised
RunOutcomes ==
    { Exited(Text(<< W_RUNNING >>), 0), Exited(<< >>, 1),
      Exited(Text(<< W_RUNNING >>), 1),
      Raised("TimeoutExpired"), Raised("FileNotFoundError"),
      Raised("PermissionError"), Raised("UnicodeDecodeError") }

RunArguments ==
    { [cmd |-> Command(path, j, StateFormat), timeout |-> timeout, ran |-> ran] :
        path \in { squeue_path, sacct_path }, j \in JobIds,
        timeout \in TimeoutArguments, ran \in RunOutcomes }

FieldParsers == { "_parse_memory", "_parse_time", "_parse_cpu_time", "_parse_datetime" }

UnitEntries == { "from_string", "_run_command" } \cup FieldParsers

Arguments(e) == CASE e = "from_string" -> StateTexts
                  [] e = "_parse_memory" -> MemoryTexts
                  [] e \in { "_parse_time", "_parse_cpu_time" } -> TimeTexts
                  [] e = "_parse_datetime" -> DatetimeTexts
                  [] e = "_run_command" -> RunArguments

UnitInit ==
    /\ entry \in UnitEntries
    /\ arg \in Arguments(entry)
    /\ job_id = << >>
    /\ pc = "call"
    /\ branch = "none"
    /\ state = "unresolved"
    /\ metrics = None
    /\ step = 1
    /\ ret = Pending
    /\ calls = << >>
    /\ clock = StartTime
    /\ jm = DefaultMetrics
    /\ applied = 0
    /\ slurm = SlurmConfig

\* What the caller of a conversion gets: its value, or its exception
Outcome(r) == IF r.ok THEN Returned(r.val) ELSE Propagated(r.exc)

\* JobState.from_string(arg)
ParseState ==
    /\ pc = "call" /\ entry = "from_string"
    /\ Finish(Outcome(from_string(arg)))
    /\ UNCHANGED << entry, job_id, branch, state, step, calls, clock, jm, applied, arg, slurm >>

\* One of the field parsers applied to arg
ParseField ==
    /\ pc = "call" /\ entry \in FieldParsers
    /\ Finish(CASE entry = "_parse_memory" -> Outcome(_parse_memory(arg))
                [] entry = "_parse_time" -> Outcome(_parse_time(arg))
                [] entry = "_parse_cpu_time" -> Outcome(_parse_cpu_time(arg))
                [] entry = "_parse_datetime" ->
                      Only({ IF d = None THEN Absent ELSE Returned(d[1]) :
                               d \in { _parse_datetime(arg) } }))
    /\ UNCHANGED << entry, job_id, branch, state, step, calls, clock, jm, applied, arg, slurm >>

\* _run_command(arg.cmd, arg.timeout) when subprocess.run does arg.ran
RunCommand ==
    /\ pc = "call" /\ entry = "_run_command"
    /\ \E c \in { Call(arg.cmd, arg.timeout, arg.ran) } :
          /\ calls' = << c >>
          /\ Finish(Returned(c.reply))
    /\ UNCHANGED << entry, job_id, branch, state, step, clock, jm, applied, arg, slurm >>

UnitNext == ParseState \/ ParseField \/ RunCommand

UnitSpec == UnitInit /\ [][UnitNext]_vars

(***************************************************************************)
(* The command line (cli.py).  Each command asks get_job_stats for its     *)
(* job (cmd_list for the job of every session of the user) and returns an  *)
(* exit code after printing to stdout and stderr.  What get_job_stats      *)
(* returned, the command-line options and what the session directory       *)
(* holds are inputs.  The status table and the HTML card are kept as the   *)
(* values they show; the rows of cmd_list are kept as text.                *)
(***************************************************************************)
RECURSIVE Decimal(_)
\* str(n) for n >= 0
Decimal(n) == IF n < 10 THEN << Digits[n + 1] >>
              ELSE Decimal(n \div 10) \o << Digits[(n % 10) + 1] >>

\* round(10 * x) for x >= 0, ties to the even neighbour
Tenths(x) ==
    LET num == 10 * x.n * Pow[KiB, x.e]
        den == x.d * Pow[KiB, -x.e]
        k == (2 * num + den) \div (2 * den)
    IN  IF (2 * num + den) % (2 * den) = 0 /\ k % 2 = 1 THEN k - 1 ELSE k

\* f"{x:.1f}" for x >= 0
FixedOne(x) == Decimal(Tenths(x) \div 10) \o << "." >> \o Decimal(Tenths(x) % 10)

\* f"{s:<w}"
PadRight(s, w) == s \o [i \in 1..(IF Len(s) < w THEN w - Len(s) ELSE 0) |-> " "]

\* s[:k]
Prefix(s, k) == SubSeq(s, 1, IF Len(s) < k THEN Len(s) ELSE k)

cpu_warning == 50

memory_warning == 40

gpu_warning == 40

\* _get_recommendations: the recommendations made, by kind
Recommendations(m) ==
    (IF NLt(m.cpu_efficiency, NumOf(cpu_warning)) /\ NLt(Zero, m.cpu_efficiency)
     THEN << "Low CPU efficiency" >> ELSE << >>)
    \o (IF NLt(m.memory_efficiency, NumOf(memory_warning)) /\ NLt(Zero, m.memory_efficiency)
        THEN << "Low memory usage" >>
        ELSE IF NLt(NumOf(95), m.memory_efficiency)
        THEN << "High memory usage" >> ELSE << >>)
    \o (IF /\ has_gpus(m)
           /\ NLt(m.gpu_utilization_avg, NumOf(gpu_warning))
           /\ NLt(Zero, m.gpu_utilization_avg)
        THEN << "Low GPU utilization" >> ELSE << >>)
    \o (IF is_completed(m.state) /\ NLt(time_efficiency(m), NumOf(25))
        THEN << "Only used part of time limit" >> ELSE << >>)

\* One message on stderr, about a job or about none
Message(text, about) == [text |-> text, about |-> about]

\* What a command did: its exit code and what it printed
Exit(code, stderr, stdout) == [code |-> code, stderr |-> stderr, stdout |-> stdout]

\* cmd_status: the table printed for metrics m
StatusTable(m, json) ==
    [ kind |-> "status",
      job_id |-> m.job_id,
      job_name |-> IF m.job_name = << >> THEN << "N","/","A" >> ELSE m.job_name,
      user |-> m.user,
      state |-> StateValue(m.state),
      partition |-> m.partition,
      nodes |-> Decimal(m.num_nodes),
      cpus |-> Decimal(m.num_cpus),
      gpus |-> IF has_gpus(m) THEN Some(Decimal(m.num_gpus)) ELSE None,
      memory |-> FixedOne(NDiv(m.memory_requested, Canon(1, 1, 3))),
      cpu |-> FixedOne(m.cpu_efficiency),
      mem |-> FixedOne(m.memory_efficiency),
      peak |-> FixedOne(NDiv(m.memory_used_max, Canon(1, 1, 3))),
      gpu |-> IF has_gpus(m) THEN Some(FixedOne(m.gpu_utilization_avg)) ELSE None,
      elapsed |-> m.elapsed_time,
      limit |-> m.time_limit,
      used |-> FixedOne(time_efficiency(m)),
      recommendations |-> Recommendations(m),
      json |-> json ]

\* cmd_status for what get_job_stats returned
cmd_status(j, a) ==
    IF a.result = None
    THEN Exit(1, << Message("Error: Could not get status for job", j) >>, << >>)
    ELSE Exit(0, << >>, << StatusTable(a.result[1], a.json) >>)

\* generate_card_html: the card of a finished job or of any other job
Card(m) == [ kind |-> "html",
             card |-> IF is_completed(m.state) THEN "completed" ELSE "running",
             metrics |-> m ]

\* The line printed after a file was written
Notice(text, path) == [kind |-> "notice", text |-> text, path |-> path]

\* cmd_update: a.session_path is the --session-path option, a.found what
\* find_session_for_job returns, a.written what update_session_card returns
cmd_update(j, a) ==
    IF a.result = None
    THEN Exit(1, << Message("Error: Could not get metrics for job", j) >>, << >>)
    ELSE Only({ IF session = None
                THEN Exit(1, << Message("Error: Could not find OOD session for job", j),
                                Message("Use --session-path to specify the session directory",
                                        << >>) >>, << >>)
                ELSE IF a.written
                THEN Exit(0, << >>, << Notice("Updated session card:", session[1]) >>)
                ELSE Exit(1, << Message("Error: Failed to update session card", << >>) >>,
                          << >>) :
                  session \in { IF a.session_path # None THEN a.session_path
                                ELSE a.found } })

\* cmd_list: the row of one session
ListRow(s) ==
    LET known == s.result # None
        shown == IF known THEN Prefix(StateValue(s.result[1].state), 10)
                 ELSE << "U","N","K","N","O","W","N" >>
        cpu == IF known /\ NLt(Zero, s.result[1].cpu_efficiency)
               THEN FixedOne(s.result[1].cpu_efficiency) ELSE << "-" >>
        mem == IF known /\ NLt(Zero, s.result[1].memory_efficiency)
               THEN FixedOne(s.result[1].memory_efficiency) ELSE << "-" >>
    IN  << [ kind |-> "row",
             text |-> PadRight(s.job_id, 12) \o << " " >> \o PadRight(shown, 12)
                      \o << " " >> \o PadRight(cpu, 8) \o << " " >>
                      \o PadRight(mem, 8) \o << " " >> \o s.name ] >>

RECURSIVE ListRows(_)
ListRows(sessions) ==
    IF sessions = << >> THEN << >>
    ELSE ListRow(Head(sessions)) \o ListRows(Tail(sessions))

\* cmd_list over the sessions list_active_sessions returned, each with what
\* get_job_stats returns for its job
cmd_list(a) ==
    IF a.sessions = << >>
    THEN Exit(0, << >>, << [kind |-> "notice", text |-> "No active OOD sessions found for user",
                            path |-> << >>] >>)
    ELSE Exit(0, << >>,
              << [kind |-> "notice", text |-> "Active Sessions for", path |-> << >>] >>
              \o ListRows(a.sessions))

\* cmd_html: a.output is the --output option
cmd_html(j, a) ==
    IF a.result = None
    THEN Exit(1, << Message("Error: Could not get metrics for job", j) >>, << >>)
    ELSE IF a.output # None
    THEN Exit(0, << >>, << Notice("HTML written to", a.output[1]) >>)
    ELSE Exit(0, << >>, << Card(a.result[1]) >>)

Commands == { "cmd_status", "cmd_update", "cmd_list", "cmd_html" }

\* Efficiencies of the metrics get_job_stats returns: 0, 0.04, 50 and 100/3
EfficiencyValues == { Zero, Canon(1, 25, 0), NumOf(50), Canon(100, 3, 0) }

\* Metrics get_job_stats can return for job j
StatsMetrics(j) ==
    { [JobMetrics(j, st) EXCEPT !.user = << "a","m","y" >>,
                                !.num_cpus = 4,
                                !.memory_requested = Canon(1, 1, 3),
                                !.cpu_efficiency = c,
                                !.memory_efficiency = e] :
        st \in JobStates, c \in EfficiencyValues, e \in EfficiencyValues }

\* What get_job_stats returns for job j: None or metrics
StatsResults(j) == { None } \cup { Some(m) : m \in StatsMetrics(j) }

SESSION_A == << "o","u","t","p","u","t","_","a" >>

SESSION_B == << "o","u","t","p","u","t","_","b" >>

CARD_FILE == << "c","a","r","d",".","h","t","m","l" >>

SessionNames == { SESSION_A, SESSION_B }

\* A session of the user: its directory name, its job, and what
\* get_job_stats returns for the job
Session(name, j, result) == [name |-> name, job_id |-> j, result |-> result]

\* The sessions of the user when cmd_list runs
SessionLists(j) ==
    { << >> }
    \cup { << Session(SESSION_A, j, r) >> : r \in StatsResults(j) }
    \cup { << Session(SESSION_A, j, r), Session(SESSION_B, OtherJob, o) >> :
             r \in StatsResults(j),
             o \in { None, Some(JobMetrics(OtherJob, "PENDING")) } }

CommandArguments(e, j) ==
    CASE e = "cmd_status" ->
           { [result |-> r, json |-> b] : r \in StatsResults(j), b \in BOOLEAN }
      [] e = "cmd_update" ->
           { [result |-> r, session_path |-> sp, found |-> f, written |-> w] :
               r \in StatsResults(j), sp \in { None, Some(SESSION_A) },
               f \in { None, Some(SESSION_B) }, w \in BOOLEAN }
      [] e = "cmd_list" -> { [sessions |-> s] : s \in SessionLists(j) }
      [] e = "cmd_html" ->
           { [result |-> r, output |-> o] :
               r \in StatsResults(j), o \in { None, Some(CARD_FILE) } }

CliInit ==
    /\ entry \in Commands
    /\ job_id \in JobIds
    /\ arg \in CommandArguments(entry, job_id)
    /\ pc = "call"
    /\ branch = "none"
    /\ state = "unresolved"
    /\ metrics = None
    /\ step = 1
    /\ ret = Pending
    /\ calls = << >>
    /\ clock = StartTime
    /\ jm = DefaultMetrics
    /\ applied = 0
    /\ slurm = SlurmConfig

CmdStatus ==
    /\ pc = "call" /\ entry = "cmd_status"
    /\ Finish(Returned(cmd_status(job_id, arg)))
    /\ UNCHANGED << entry, job_id, branch, state, step, calls, clock, jm, applied, arg, slurm >>

CmdUpdate ==
    /\ pc = "call" /\ entry = "cmd_update"
    /\ Finish(Returned(cmd_update(job_id, arg)))
    /\ UNCHANGED << entry, job_id, branch, state, step, calls, clock, jm, applied, arg, slurm >>

CmdList ==
    /\ pc = "call" /\ entry = "cmd_list"
    /\ Finish(Returned(cmd_list(arg)))
    /\ UNCHANGED << entry, job_id, branch, state, step, calls, clock, jm, applied, arg, slurm >>

CmdHtml ==
    /\ pc = "call" /\ entry = "cmd_html"
    /\ Finish(Returned(cmd_html(job_id, arg)))
    /\ UNCHANGED << entry, job_id, branch, state, step, calls, clock, jm, applied, arg, slurm >>

CliNext == CmdStatus \/ CmdUpdate \/ CmdList \/ CmdHtml

CliSpec == CliInit /\ [][CliNext]_vars

(***************************************************************************)
(* Properties of the engine.  They read the log of executor calls: the     *)
(* resolver's two queries and the collectors' three are told apart by      *)
(* their -o argument.                                                      *)
(***************************************************************************)
ResolverCalls ==
    SelectSeq(calls, LAMBDA c : c.cmd.o \in { StateFormat, SacctStateFormat })

CollectorCalls ==
    SelectSeq(calls, LAMBDA c : c.cmd.o \in { QueueFormat, SstatFormat, SacctFormat })

LiveCalls == SelectSeq(calls, LAMBDA c : c.cmd.o \in { QueueFormat, SstatFormat })

Replies(cs) == [i \in 1..Len(cs) |-> cs[i].reply]

\* The call succeeded with output that is not blank
Blank(text) == \A i \in 1..Len(text) : IsSpace(text[i])

Yields(reply) == reply.rc = 0 /\ ~Blank(reply.stdout)

\* The states the dispatcher sends to the historical collector
TerminalStates == { "COMPLETED", "FAILED", "CANCELLED", "TIMEOUT", "NODE_FAIL",
                    "PREEMPTED" }

\* The time of last_updated in what was returned, the clock otherwise
UpdatedAt == IF ret.value # None THEN ret.value[1].last_updated[1] ELSE clock

\* C1: get_job_stats with the resolved state RUNNING issues only the live
\* collector's commands and returns what the live collector returns for the
\* replies given; with a resolved state among COMPLETED, FAILED, CANCELLED,
\* TIMEOUT, NODE_FAIL and PREEMPTED it issues only the historical collector's
\* command and returns what the historical collector returns.
RoutesByState ==
    entry = "get_job_stats" /\ state # "unresolved" =>
      /\ state = "RUNNING" =>
           /\ \A i \in 1..Len(CollectorCalls) : CollectorCalls[i].cmd.o # SacctFormat
           /\ pc \in { "live_squeue", "live_sstat", "done" }
           /\ pc = "done" =>
                /\ CollectorCalls # << >>
                /\ ret = LiveResult(job_id, Replies(CollectorCalls), UpdatedAt, clock)
      /\ state \in TerminalStates =>
           /\ \A i \in 1..Len(CollectorCalls) : CollectorCalls[i].cmd.o = SacctFormat
           /\ pc \in { "hist_sacct", "done" }
           /\ pc = "done" =>
                /\ Len(CollectorCalls) = 1
                /\ ret = HistCollect(job_id, CollectorCalls[1].reply, clock)

\* A Running job whose metrics came from squeue and sstat
RoutesByStateWitness ==
    /\ entry = "get_job_stats" /\ state = "RUNNING" /\ pc = "done"
    /\ ret.value # None
    /\ ret.value[1].cpu_time_total # Zero
    /\ Len(LiveCalls) >= 2

\* C2: with the resolved state UNKNOWN the first collector command is the
\* historical collector's; live commands follow only after the historical
\* collector returned None; a historical result is returned after that one
\* command; None is returned only when both collectors returned None.
UnknownTriesHistoryFirst ==
    entry = "get_job_stats" /\ state = "UNKNOWN" =>
      LET cc == CollectorCalls
      IN  /\ cc # << >> => cc[1].cmd = Command(sacct_path, job_id, SacctFormat)
          /\ \A i \in 2..Len(cc) : cc[i].cmd.o \in { QueueFormat, SstatFormat }
          /\ Len(cc) > 1 => HistCollect(job_id, cc[1].reply, clock) = Absent
          /\ pc = "done" /\ Len(cc) = 1 =>
               /\ ret = HistCollect(job_id, cc[1].reply, clock)
               /\ ret # Absent
          /\ pc = "done" /\ Len(cc) > 1 =>
               ret = LiveResult(job_id, Replies(Tail(cc)), UpdatedAt, clock)
          /\ pc = "done" /\ ret = Absent =>
               /\ Len(cc) = 2
               /\ HistCollect(job_id, cc[1].reply, clock) = Absent
               /\ LiveResult(job_id, << cc[2].reply >>, clock, clock) = Absent

\* The historical collector returned None and the live collector metrics
UnknownTriesHistoryFirstWitness ==
    /\ entry = "get_job_stats" /\ state = "UNKNOWN" /\ pc = "done"
    /\ Len(CollectorCalls) > 1
    /\ ret.value # None

\* C3: with the resolved state PENDING get_job_stats is finished without a
\* collector command and returns a JobMetrics with the job id, the state
\* PENDING and last_updated set, and every other field at its default.
PendingIsMinimal ==
    entry = "get_job_stats" /\ state = "PENDING" =>
      /\ pc = "done"
      /\ CollectorCalls = << >>
      /\ ret.kind = "return" /\ ret.value # None
      /\ ret.value[1].last_updated = Some(clock)
      /\ [ret.value[1] EXCEPT !.last_updated = None] =
           [ job_id |-> job_id, job_name |-> << >>, user |-> << >>,
             state |-> "PENDING",
             submit_time |-> None, start_time |-> None, end_time |-> None,
             elapsed_time |-> Zero, time_limit |-> Zero,
             num_nodes |-> 0, num_cpus |-> 0, num_gpus |-> 0,
             memory_requested |-> Zero, partition |-> << >>,
             cpu_time_total |-> Zero, cpu_efficiency |-> Zero,
             memory_used_max |-> Zero, memory_used_avg |-> Zero,
             memory_efficiency |-> Zero,
             gpu_utilization_avg |-> Zero, gpu_memory_utilization_avg |-> Zero,
             gpu_metrics |-> << >>, node_metrics |-> << >>,
             last_updated |-> None, error_message |-> None ]

\* A Pending job whose state came from the accounting query
PendingIsMinimalWitness ==
    /\ entry = "get_job_stats" /\ state = "PENDING" /\ pc = "done"
    /\ Len(ResolverCalls) = 2
    /\ ret.value # None

\* C4: get_job_state queries squeue first and returns the state parsed from
\* its output when the call succeeds with non-blank output, without a sacct
\* query; otherwise it queries sacct and returns the state parsed from the
\* first line of its output, or UNKNOWN when that query yields nothing.
ResolverCascade ==
    entry \in { "get_job_state", "get_job_stats" } =>
      LET rc == ResolverCalls
      IN  /\ Len(rc) <= 2
          /\ rc # << >> => rc[1].cmd = Command(squeue_path, job_id, StateFormat)
          /\ Len(rc) = 2 =>
               /\ ~Yields(rc[1].reply)
               /\ rc[2].cmd = Command(sacct_path, job_id, SacctStateFormat)
          /\ pc = "resolve_sacct" => Len(rc) = 1 /\ ~Yields(rc[1].reply)
          /\ state # "unresolved" =>
               /\ rc # << >>
               /\ IF Yields(rc[1].reply)
                  THEN /\ Len(rc) = 1
                       /\ state = from_string(Strip(rc[1].reply.stdout)).val
                  ELSE /\ Len(rc) = 2
                       /\ state = IF Yields(rc[2].reply)
                                  THEN from_string(
                                         Split(Strip(rc[2].reply.stdout), "\n")[1]).val
                                  ELSE "UNKNOWN"

\* The state came from the first of two accounting lines that differ
ResolverCascadeWitness ==
    /\ entry = "get_job_state" /\ pc = "done"
    /\ Len(ResolverCalls) = 2
    /\ state = "CANCELLED"
    /\ Len(Split(Strip(ResolverCalls[2].reply.stdout), "\n")) = 2

\* C5: when the live collector's squeue call fails or returns blank output
\* the collector returns None and no sstat command is issued.
LiveAbsentWithoutQueueData ==
    LiveCalls # << >> /\ ~Yields(LiveCalls[1].reply) =>
      /\ LiveCalls[1].cmd = Command(squeue_path, job_id, QueueFormat)
      /\ Len(LiveCalls) = 1
      /\ pc = "done"
      /\ ret = Absent

\* The squeue call succeeded with blank output
LiveAbsentWithoutQueueDataWitness ==
    /\ entry = "get_running_job_stats" /\ pc = "done"
    /\ Len(calls) = 1
    /\ calls[1].reply.rc = 0 /\ calls[1].reply.stdout # << >>
    /\ ret = Absent

\* The number of pipe-delimited fields of a line
FieldCount(line) == 1 + Cardinality({ i \in 1..Len(line) : line[i] = "|" })

\* The lines of the output of the first command issued
FirstOutputLines == Split(Strip(calls[1].reply.stdout), "\n")

\* C6: a collector whose primary query fails, prints nothing, or prints a
\* line with too few fields (fewer than 11 for squeue, a main line of fewer
\* than 18 for sacct) returns None, not a JobMetrics.
InsufficientIsAbsent ==
    pc = "done" =>
      /\ ( /\ entry = "get_running_job_stats"
           /\ \/ ~Yields(calls[1].reply)
              \/ FieldCount(Strip(calls[1].reply.stdout)) < 11 )
         => ret = Absent
      /\ ( /\ entry = "get_completed_job_stats"
           /\ \/ ~Yields(calls[1].reply)
              \/ Len(MainLine(job_id, FirstOutputLines)) < 18 )
         => ret = Absent

\* C7: get_completed_job_stats issues exactly one sacct command; it returns
\* None when the command fails, prints no line, or the main line has fewer
\* than 18 fields, and a JobMetrics in every other case.
HistoryNoneOrMetrics ==
    entry = "get_completed_job_stats" /\ pc = "done" =>
      /\ Len(calls) = 1
      /\ calls[1].cmd = Command(sacct_path, job_id, SacctFormat)
      /\ IF \/ ~Yields(calls[1].reply)
            \/ Len(MainLine(job_id, FirstOutputLines)) < 18
         THEN ret = Absent
         ELSE ret.kind = "return" /\ ret.value # None

\* The fields of the last line whose record id is id, << >> without one
RecordOf(id, lines) ==
    LET idx == { i \in 1..Len(lines) : Split(lines[i], "|")[1] = id }
    IN  IF idx = { } THEN << >>
        ELSE Split(lines[CHOOSE i \in idx : \A k \in idx : k <= i], "|")

\* The identity, time and allocation fields of m are those of the record
FromMain(m, main) ==
    /\ m.job_name = main[2] /\ m.user = main[3]
    /\ m.state = from_string(main[4]).val
    /\ m.submit_time = _parse_datetime(main[5])
    /\ m.start_time = _parse_datetime(main[6])
    /\ m.end_time = _parse_datetime(main[7])
    /\ m.elapsed_time = _parse_time(main[8]).val
    /\ m.time_limit = _parse_time(main[9]).val
    /\ m.num_nodes = CountOf(main[10]) /\ m.num_cpus = CountOf(main[11])
    /\ m.memory_requested =
         RequestedMemory(main[12], CountOf(main[10]), CountOf(main[11])).val
    /\ m.partition = main[16]
    /\ m.num_gpus = GresGpus(main[17])

\* get_completed_job_stats returned a JobMetrics for an output with a record
\* of the job and a record of its batch step
BothRecords ==
    /\ entry = "get_completed_job_stats" /\ pc = "done" /\ ret.value # None
    /\ RecordOf(job_id, FirstOutputLines) # << >>
    /\ RecordOf(job_id \o BatchSuffix, FirstOutputLines) # << >>

RequestedMemoryScaled ==
    entry = "get_completed_job_stats" /\ pc = "done" /\ ret.value # None =>
      LET m == ret.value[1]
          req == MainLine(job_id, FirstOutputLines)[12]
          last == IF req = << >> THEN "" ELSE req[Len(req)]
          bytes == _parse_memory(IF last \in { "n", "c" }
                                 THEN SubSeq(req, 1, Len(req) - 1) ELSE req).val
      IN  m.memory_requested =
            IF last = "n" THEN NMul(bytes, NumOf(m.num_nodes))
            ELSE IF last = "c" THEN NMul(bytes, NumOf(m.num_cpus))
            ELSE bytes

\* '4Gn' on 2 nodes is stored as 8 * 1024^3 bytes
RequestedMemoryScaledWitness ==
    /\ entry = "get_completed_job_stats" /\ pc = "done" /\ ret.value # None
    /\ MainLine(job_id, FirstOutputLines)[12] = << "4","G","n" >>
    /\ ret.value[1].num_nodes = 2
    /\ ret.value[1].memory_requested = [n |-> 8, d |-> 1, e |-> 3]

\* 0 <= x <= 100
IsPercentage(x) == NLe(Zero, x) /\ NLe(x, Hundred)

\* C10: after calculate_efficiency the four percentages lie within [0, 100].
PercentagesWithinBounds ==
    entry = "calculate_efficiency" /\ applied > 0 =>
      /\ IsPercentage(jm.cpu_efficiency)
      /\ IsPercentage(jm.memory_efficiency)
      /\ IsPercentage(jm.gpu_utilization_avg)
      /\ IsPercentage(jm.gpu_memory_utilization_avg)

\* x limited to the range from 0 to 100
Clamp(x) == IF NLt(x, Zero) THEN Zero ELSE IF NLt(Hundred, x) THEN Hundred ELSE x

\* calculate_efficiency has been applied to the JobMetrics arg, giving jm
Calculated == entry = "calculate_efficiency" /\ applied > 0

\* C11: after calculate_efficiency, cpu_efficiency is
\* clamp(100 * cpu_time_total / (elapsed_seconds * num_cpus), 0, 100) when
\* elapsed_seconds > 0 and num_cpus > 0, and the value it had before the call
\* when either is not positive.
CpuEfficiencyComputed ==
    Calculated =>
      jm.cpu_efficiency =
        IF NLt(Zero, arg.elapsed_time) /\ arg.num_cpus > 0
        THEN Clamp(NDiv(NMul(Hundred, arg.cpu_time_total),
                        NMul(arg.elapsed_time, NumOf(arg.num_cpus))))
        ELSE arg.cpu_efficiency

\* One hour on 4 CPUs with 2 hours of CPU time: a stale 55 becomes 50
CpuEfficiencyComputedWitness ==
    /\ Calculated
    /\ arg.elapsed_time = NumOf(3600) /\ arg.num_cpus = 4
    /\ arg.cpu_time_total = NumOf(7200)
    /\ arg.cpu_efficiency = NumOf(55)
    /\ jm.cpu_efficiency = NumOf(50)

\* C12: after calculate_efficiency, memory_efficiency is
\* clamp(100 * memory_used_max / memory_requested, 0, 100) when
\* memory_requested > 0 and 0 when it is not, whatever it was before the call.
MemoryEfficiencyComputed ==
    Calculated =>
      jm.memory_efficiency =
        IF NLt(Zero, arg.memory_requested)
        THEN Clamp(NDiv(NMul(Hundred, arg.memory_used_max), arg.memory_requested))
        ELSE Zero

\* C13: time_efficiency is not a field of JobMetrics; read before or after
\* calculate_efficiency it is 100 * elapsed_seconds / time_limit_seconds, and
\* 0 when the time limit is zero or negative.
TimeEfficiencyDerived ==
    entry = "calculate_efficiency" =>
      /\ "time_efficiency" \notin DOMAIN jm
      /\ time_efficiency(jm) =
           IF NLt(Zero, jm.time_limit)
           THEN NDiv(NMul(Hundred, jm.elapsed_time), jm.time_limit)
           ELSE Zero

\* A negative limit with a negative elapsed time reads as 0, not as 100
TimeEfficiencyDerivedWitness ==
    /\ Calculated
    /\ jm.time_limit = NumOf(-3600) /\ jm.elapsed_time = NumOf(-3600)
    /\ time_efficiency(jm) = Zero

\* The fields calculate_efficiency computes; every other field is raw
DerivedFields == { "cpu_efficiency", "memory_efficiency", "gpu_utilization_avg",
                   "gpu_memory_utilization_avg" }

\* C14: a second application of calculate_efficiency changes no field, and no
\* application changes a raw field.
EfficiencyIdempotent ==
    [][ applied' = applied + 1 =>
          /\ \A f \in DOMAIN jm \ DerivedFields : jm'[f] = jm[f]
          /\ (applied >= 1 => jm' = jm) ]_vars

\* Applied twice to a JobMetrics whose first application changed it
EfficiencyIdempotentWitness ==
    /\ entry = "calculate_efficiency" /\ applied = 2
    /\ jm # arg
    /\ jm.cpu_efficiency = NumOf(50) /\ jm.memory_efficiency = NumOf(50)
    /\ jm.gpu_utilization_avg = NumOf(120)

\* The call of a parser or of _run_command on its own has ended
Called(e) == entry = e /\ pc = "done"

\* C15: _run_command returns a triple and raises nothing; when subprocess.run
\* raised, stdout is empty, the exit code is -1 and stderr says what happened
\* ('Command timed out' for a timeout); the timeout handed to subprocess.run
\* is the timeout argument when the caller gave one, the configured default
\* when it did not.
RunCommandContained ==
    Called("_run_command") =>
      /\ ret.kind = "return"
      /\ arg.ran.kind # "exit" =>
            /\ ret.value[1].stdout = << >>
            /\ ret.value[1].rc = -1
            /\ ret.value[1].stderr # ""
      /\ arg.ran.kind = "TimeoutExpired" => ret.value[1].stderr = "Command timed out"
      /\ calls[1].timeout = IF arg.timeout = None THEN command_timeout
                            ELSE arg.timeout[1]

\* The sstat calls of the live collector, in the order made
StatCalls == SelectSeq(calls, LAMBDA c : c.cmd.o = SstatFormat)

\* sstat succeeded and printed a line with the five requested fields
Structured(reply) ==
    /\ Yields(reply)
    /\ \E i \in 1..Len(Split(Strip(reply.stdout), "\n")) :
          FieldCount(Split(Strip(reply.stdout), "\n")[i]) >= SstatFieldCount

\* C16: the live collector's sstat calls are for the step suffixes '',
\* '.batch', '.0' in that order, at most three; each call but the last gave
\* no usable (non-empty, structured) output; the loop ends before the third
\* suffix only on usable output; and cpu_time_total and memory_used_max of
\* the result come from the usable output.
StepSuffixCascade ==
    pc = "done" /\ StatCalls # << >> /\ ret.kind = "return" =>
      LET n == Len(StatCalls)
          last == StatCalls[n].reply
          fields == FirstStatLine(Split(Strip(last.stdout), "\n"))
      IN  /\ n <= 3
          /\ \A i \in 1..n : StatCalls[i].cmd.j = job_id \o StepSuffixes[i]
          /\ \A i \in 1..(n - 1) : ~Structured(StatCalls[i].reply)
          /\ n < 3 => Structured(last)
          /\ Structured(last) =>
                /\ ret.value[1].cpu_time_total = _parse_cpu_time(fields[1][2]).val
                /\ ret.value[1].memory_used_max = _parse_memory(fields[1][3]).val

\* The scenario of C17: get_running_job_stats reads the well-formed squeue
\* line of a job with 4 CPUs started at 10:00 when the clock says 11:30, the
\* sstat call without a suffix gives nothing, and the call for '.batch'
\* reports an AveCPU of 02:00:00
Scenario ==
    /\ entry = "get_running_job_stats" /\ pc = "done"
    /\ calls[1].reply = [stdout |-> Text(<< Line(QueueRecord) >>), stderr |-> "", rc |-> 0]
    /\ clock = timedelta(14, NumOf(11), NumOf(30), Zero)
    /\ Len(StatCalls) = 2
    /\ ~Usable(StatCalls[1].reply)
    /\ StatCalls[2].reply = [stdout |-> Text(<< Line(StatRecord) >>), stderr |-> "", rc |-> 0]

\* C17 as stated: in the scenario the returned cpu_efficiency is 50.0.
ScenarioCpuEfficiencyFifty ==
    Scenario => ret.kind = "return" /\ ret.value[1].cpu_efficiency = NumOf(50)

\* C17, amended: in the scenario the returned cpu_efficiency is
\* 100 * 7200 / (5400 * 4) = 100/3.
ScenarioCpuEfficiency ==
    Scenario => ret.kind = "return" /\ ret.value[1].cpu_efficiency = Canon(100, 3, 0)

ScenarioCpuEfficiencyWitness ==
    /\ Scenario
    /\ ret.value[1].elapsed_time = NumOf(5400)
    /\ ret.value[1].num_cpus = 4
    /\ ret.value[1].cpu_time_total = NumOf(7200)
    /\ ret.value[1].cpu_efficiency = Canon(100, 3, 0)

\* A text without a token: empty or only whitespace
Tokenless(text) == Blank(text)

\* C18: from_string returns a JobState for every text and raises nothing: the
\* state named by the first whitespace-delimited token in any case, UNKNOWN
\* for a text without a token or with a first token that names no state; and
\* parsing the name of the state returned gives that state again.
FromStringTotal ==
    Called("from_string") =>
      /\ ret.kind = "return"
      /\ ret.value[1] \in JobStates
      /\ Tokenless(arg) => ret.value[1] = "UNKNOWN"
      /\ \A st \in JobStates :
            (~Tokenless(arg) /\ Upper(SplitWS(arg)[1]) = StateValue(st))
               => ret.value[1] = st
      /\ from_string(StateValue(ret.value[1])) = Return(ret.value[1])
      /\ from_string(Lower(arg)) = from_string(Upper(arg))

\* C19: for the state from_string returned, is_running holds only for
\* RUNNING, is_successful only for COMPLETED, is_completed for COMPLETED,
\* FAILED, CANCELLED, TIMEOUT, NODE_FAIL and PREEMPTED and not for PENDING,
\* RUNNING and UNKNOWN; no state is both running and completed, and a
\* successful state is completed.
StatePredicates ==
    Called("from_string") /\ ret.kind = "return" =>
      LET st == ret.value[1]
      IN  /\ st \in JobStates
          /\ is_running(st) <=> st = "RUNNING"
          /\ is_successful(st) <=> st = "COMPLETED"
          /\ is_completed(st) <=> st \in TerminalStates
          /\ is_completed(st) <=> st \notin { "PENDING", "RUNNING", "UNKNOWN" }
          /\ ~(is_running(st) /\ is_completed(st))
          /\ is_successful(st) => is_completed(st)

\* 'PREEMPTED  ' parsed: completed, neither running nor successful
StatePredicatesWitness ==
    /\ Called("from_string") /\ ret.kind = "return"
    /\ ret.value[1] = "PREEMPTED"
    /\ is_completed(ret.value[1])
    /\ ~is_running(ret.value[1]) /\ ~is_successful(ret.value[1])

\* C20: a field parser returns a value for every text and raises nothing:
\* zero (for _parse_datetime, None) when the text cannot be parsed.
FieldParsersTotal ==
    pc = "done" /\ entry \in FieldParsers => ret.kind = "return"

\* A numeral: digits with at most one '.', and its value
IsNumeral(s) ==
    /\ \A i \in 1..Len(s) : IsDigitChar(s[i]) \/ s[i] = "."
    /\ Cardinality({ i \in 1..Len(s) : s[i] = "." }) <= 1
    /\ \E i \in 1..Len(s) : IsDigitChar(s[i])

NumeralValue(s) ==
    LET dot == FirstIndex(s, ".")
    IN  Canon(DigitsVal(SelectSeq(s, LAMBDA c : c # ".")),
              Pow[10, IF dot = 0 THEN 0 ELSE Len(s) - dot], 0)

\* C21: _parse_memory returns numeral * 1024^n for a numeral followed by K,
\* M, G or T in either case (n = 1, 2, 3, 4), the value of a bare numeral,
\* and 0 for the empty string.
MemoryParsed ==
    Called("_parse_memory") =>
      /\ arg = << >> => ret = Returned(Zero)
      /\ IsNumeral(arg) => ret = Returned(NumeralValue(arg))
      /\ \A n \in 1..4 :
            ( /\ Len(arg) > 1
              /\ IsNumeral(SubSeq(arg, 1, Len(arg) - 1))
              /\ UpperChar(arg[Len(arg)]) = << "K", "M", "G", "T" >>[n] )
            => ret = Returned(NMul(NumeralValue(SubSeq(arg, 1, Len(arg) - 1)),
                                   Canon(1, 1, n)))

\* '1.5g' is one and a half times 1024^3
MemoryParsedWitness ==
    /\ Called("_parse_memory")
    /\ arg = << "1", ".", "5", "g" >>
    /\ ret = Returned([n |-> 3, d |-> 2, e |-> 3])

\* The text is of the shape SS, MM:SS, HH:MM:SS or DD-HH:MM:SS, every field
\* a string of digits
DayPart(s) == IF FirstIndex(s, "-") = 0 THEN << >>
              ELSE SubSeq(s, 1, FirstIndex(s, "-") - 1)

ClockParts(s) == Split(Drop(s, FirstIndex(s, "-") + 1), ":")

ValidDuration(s) ==
    /\ \A i \in 1..Len(ClockParts(s)) : IsDigit(ClockParts(s)[i])
    /\ IF FirstIndex(s, "-") = 0 THEN Len(ClockParts(s)) \in 1..3
       ELSE IsDigit(DayPart(s)) /\ Len(ClockParts(s)) = 3

\* days * 86400 + hours * 3600 + minutes * 60 + seconds of a valid text
DurationSeconds(s) ==
    LET p == ClockParts(s)
        k == Len(p)
    IN  86400 * DigitsVal(DayPart(s))
        + (IF k = 3 THEN 3600 * DigitsVal(p[1]) ELSE 0)
        + (IF k >= 2 THEN 60 * DigitsVal(p[k - 1]) ELSE 0)
        + DigitsVal(p[k])

\* C22: _parse_time returns exactly days * 86400 + hours * 3600 +
\* minutes * 60 + seconds for every valid text of the four shapes, and the
\* zero duration for the empty string.
DurationParsed ==
    Called("_parse_time") =>
      /\ arg = << >> => ret = Returned(Zero)
      /\ ValidDuration(arg) => ret = Returned(NumOf(DurationSeconds(arg)))

\* '1-12:30:00' is 131400 seconds
DurationParsedWitness ==
    /\ Called("_parse_time")
    /\ arg = << "1", "-", "1", "2", ":", "3", "0", ":", "0", "0" >>
    /\ ValidDuration(arg)
    /\ ret = Returned(NumOf(131400))

\* C25 as stated: every failure of the execution, a non-zero exit code
\* included, reaches the caller as empty output and a diagnostic text.
FailuresSurfaceEmpty ==
    (Called("_run_command") /\ (arg.ran.kind # "exit" \/ arg.ran.returncode # 0)) =>
         /\ ret.kind = "return"
         /\ ret.value[1].stdout = << >>

\* C25, amended: a failure to run the command (subprocess.run raised) reaches
\* the caller as empty output, a diagnostic text and the code -1; a command
\* that ran to completion reaches it with the output and the exit code of
\* the process, whatever the code.
ExecutorSurfacesFailures ==
    Called("_run_command") =>
      /\ ret.kind = "return"
      /\ arg.ran.kind # "exit" =>
            /\ ret.value[1].stdout = << >>
            /\ ret.value[1].stderr # ""
            /\ ret.value[1].rc = -1
      /\ arg.ran.kind = "exit" =>
            /\ ret.value[1].stdout = arg.ran.stdout
            /\ ret.value[1].stderr = arg.ran.stderr
            /\ ret.value[1].rc = arg.ran.returncode

\* squeue printed RUNNING and exited with code 1: the caller gets both
ExecutorSurfacesFailuresWitness ==
    /\ Called("_run_command")
    /\ arg.ran = Exited(Text(<< W_RUNNING >>), 1)
    /\ ret.value[1].stdout = Text(<< W_RUNNING >>)
    /\ ret.value[1].rc = 1

\* get_completed_job_stats got output without a record of the job id itself
NoExactRecord ==
    /\ entry = "get_completed_job_stats" /\ pc = "done"
    /\ Yields(calls[1].reply)
    /\ RecordOf(job_id, FirstOutputLines) = << >>

\* C26: without a line whose record id is the job id, the first line is the
\* main record, a step record included, and with at least 18 fields there
\* the collector returns a JobMetrics whose identity, allocation and time
\* fields are that line's.
FallbackToFirstLine ==
    NoExactRecord =>
      LET first == Split(FirstOutputLines[1], "|")
      IN  Len(first) >= SacctFieldCount =>
            /\ ret.kind = "return"
            /\ ret.value # None
            /\ FromMain(ret.value[1], first)

\* The squeue line has its eleven fields and the three that are parsed
\* strictly (state, time left, memory) parse
WellFormedQueueLine(reply) ==
    /\ Yields(reply)
    /\ LET parts == Split(Strip(reply.stdout), "|")
       IN  /\ Len(parts) >= QueueFieldCount
           /\ from_string(parts[3]).ok
           /\ _parse_time(parts[6]).ok
           /\ _parse_memory(parts[10]).ok

\* The live collector has returned after a well-formed squeue line and
\* sstat calls that all gave nothing
PartialData ==
    /\ pc = "done" /\ LiveCalls # << >>
    /\ WellFormedQueueLine(LiveCalls[1].reply)
    /\ \A i \in 1..Len(StatCalls) : ~Yields(StatCalls[i].reply)

\* C27: with a well-formed squeue line and nothing from sstat, all three
\* step attempts are made and the live collector returns a JobMetrics that
\* carries the queue metadata, with cpu_time_total, memory_used_max,
\* cpu_efficiency and memory_efficiency all 0.
PartialDataReturned ==
    PartialData =>
      LET parts == Split(Strip(LiveCalls[1].reply.stdout), "|")
      IN  /\ Len(StatCalls) = 3
          /\ ret.kind = "return" /\ ret.value # None
          /\ ret.value[1].job_name = parts[1]
          /\ ret.value[1].user = parts[2]
          /\ ret.value[1].state = from_string(parts[3]).val
          /\ ret.value[1].num_nodes = CountOf(parts[7])
          /\ ret.value[1].num_cpus = CountOf(parts[8])
          /\ ret.value[1].memory_requested = _parse_memory(parts[10]).val
          /\ ret.value[1].partition = parts[11]
          /\ ret.value[1].cpu_time_total = Zero
          /\ ret.value[1].memory_used_max = Zero
          /\ ret.value[1].cpu_efficiency = Zero
          /\ ret.value[1].memory_efficiency = Zero

\* Three sstat calls that failed in different ways, after a line of a job
\* with 8G requested
PartialDataReturnedWitness ==
    /\ PartialData
    /\ Len(StatCalls) = 3
    /\ StatCalls[1].reply.rc # 0
    /\ ret.value # None
    /\ ret.value[1].memory_requested # Zero
    /\ ret.value[1].memory_efficiency = Zero

CallsWith(o) == SelectSeq(calls, LAMBDA c : c.cmd.o = o)

\* At most seven executor calls, of the kinds the entry points make, and no
\* command twice
FewCalls ==
    /\ Len(calls) <= 7
    /\ Len(ResolverCalls) <= 2
    /\ Len(CallsWith(SacctFormat)) <= 1
    /\ Len(CallsWith(QueueFormat)) <= 1
    /\ Len(CallsWith(SstatFormat)) <= 3
    /\ \A i, k \in 1..Len(calls) : i # k => calls[i].cmd # calls[k].cmd

\* C28: every call of get_job_stats returns, after at most 7 executor calls
\* (2 by the resolver, 1 sacct, 1 squeue, 3 sstat), and no command is issued
\* a second time with the same arguments.
CallsBounded == [](FewCalls) /\ <>(pc = "done")

\* get_job_stats returned after seven calls, the first of which timed out
CallsBoundedWitness ==
    /\ entry = "get_job_stats" /\ pc = "done"
    /\ Len(calls) = 7
    /\ calls[1].reply.rc = -1

\* C29: get_job_stats with the resolved state RUNNING never issues the sacct
\* accounting command, and returns None after the live collector's one
\* squeue call when that call gives nothing; the accounting command is
\* issued only for a resolved state that is terminal or UNKNOWN.
RunningSkipsAccounting ==
    entry = "get_job_stats" =>
      /\ CallsWith(SacctFormat) # << >> => state \in TerminalStates \cup { "UNKNOWN" }
      /\ state = "RUNNING" =>
           /\ CallsWith(SacctFormat) = << >>
           /\ ( /\ pc = "done"
                /\ ~Yields(CollectorCalls[1].reply) )
              => /\ ret = Absent
                 /\ Len(CollectorCalls) = 1
                 /\ CollectorCalls[1].cmd = Command(squeue_path, job_id, QueueFormat)

\* The resolver's squeue call printed RUNNING and the live collector's
\* printed nothing
RunningSkipsAccountingWitness ==
    /\ entry = "get_job_stats" /\ state = "RUNNING" /\ pc = "done"
    /\ Len(ResolverCalls) = 1
    /\ CollectorCalls[1].reply.rc = 0
    /\ Blank(CollectorCalls[1].reply.stdout)
    /\ ret = Absent

\* C30: a JobMetrics returned by get_job_stats or by one of the collectors
\* has the job id that was asked for.
JobIdPreserved ==
    /\ entry \in { "get_job_stats", "get_running_job_stats",
                   "get_completed_job_stats" }
    /\ pc = "done" /\ ret.value # None
    => ret.value[1].job_id = job_id

\* The historical collector fell back to a first line that is the record
\* of another job
JobIdPreservedWitness ==
    /\ NoExactRecord
    /\ Split(FirstOutputLines[1], "|")[1] = OtherJob
    /\ ret.value # None
    /\ ret.value[1].job_id = job_id

\* The jobs a command asked get_job_stats about, each with the answer
Asked ==
    IF entry = "cmd_list"
    THEN { [job_id |-> arg.sessions[i].job_id, result |-> arg.sessions[i].result] :
             i \in 1..Len(arg.sessions) }
    ELSE { [job_id |-> job_id, result |-> arg.result] }

\* The rows cmd_list prints for a job that exists
RowsOfExisting(j) ==
    { ListRow(Session(n, j, Some(m)))[1] : n \in SessionNames, m \in StatsMetrics(j) }

\* C23: a command that got no result from get_job_stats for a job ends with
\* a non-zero exit code and an error message about that job, and prints
\* nothing that it would print for a job that exists.
NotFoundReported ==
    entry \in Commands /\ pc = "done" =>
      \A q \in Asked :
         q.result = None =>
            /\ ret.value[1].code # 0
            /\ \E i \in 1..Len(ret.value[1].stderr) :
                  ret.value[1].stderr[i].about = q.job_id
            /\ \A i \in 1..Len(ret.value[1].stdout) :
                  ret.value[1].stdout[i].kind = "row" =>
                     ret.value[1].stdout[i] \notin RowsOfExisting(q.job_id)

\* The replies to the calls of cs whose -o argument is in formats
RepliesTo(cs, formats) == Replies(SelectSeq(cs, LAMBDA c : c.cmd.o \in formats))

\* What get_job_stats(f.job_id) returns when it runs alone and gets the
\* replies and the clock readings invocation f got
Alone(f) ==
    LET rr == RepliesTo(f.calls, { StateFormat, SacctStateFormat })
        cr == RepliesTo(f.calls, { QueueFormat, SstatFormat, SacctFormat })
        st == IF StateFromSqueue(rr[1]) # None THEN StateFromSqueue(rr[1])[1]
              ELSE StateFromSacct(rr[2])
        updated == IF f.ret.value # None THEN f.ret.value[1].last_updated[1]
                   ELSE f.clock
    IN  CASE Route(st) = "pending" ->
               Returned([JobMetrics(f.job_id, st) EXCEPT !.last_updated = Some(f.clock)])
          [] Route(st) = "running" -> LiveResult(f.job_id, cr, updated, f.clock)
          [] Route(st) = "completed" -> HistCollect(f.job_id, cr[1], f.clock)
          [] OTHER -> IF Len(cr) = 1 THEN HistCollect(f.job_id, cr[1], f.clock)
                      ELSE LiveResult(f.job_id, Tail(cr), updated, f.clock)

\* The commands of invocation f are about its own job
OwnCommands(f) ==
    \A i \in 1..Len(f.calls) :
       \E k \in 0..Len(StepSuffixes) :
          f.calls[i].cmd.j = f.job_id \o (IF k = 0 THEN << >> ELSE StepSuffixes[k])

\* Both invocations, the running one first
Invocations == << Locals, arg[1] >>

Independent ==
    Paired =>
      \A i \in 1..2 :
         /\ OwnCommands(Invocations[i])
         /\ Invocations[i].pc = "done" => Invocations[i].ret = Alone(Invocations[i])

\* C24: no step of an invocation changes the JobStats instance or its
\* configuration, and of two invocations of get_job_stats for different
\* jobs that take turns in any order each issues commands for its own job
\* only and returns what it returns when run alone with the same replies.
InvocationsIndependent == [](Independent) /\ [][slurm' = slurm]_vars

\* One invocation has returned the metrics of its job while the other one
\* is in its sstat loop with metrics of its own under construction
InvocationsIndependentWitness ==
    /\ Paired
    /\ pc = "done" /\ ret.value # None
    /\ ret.value[1].job_id = job_id
    /\ ret.value[1].cpu_time_total # Zero
    /\ arg[1].pc = "live_sstat" /\ arg[1].step = 2
    /\ arg[1].metrics[1].job_id = arg[1].job_id
    /\ arg[1].job_id # job_id

====
